---------------------------- MODULE Spec2Model ----------------------------
(***************************************************************************)
(* Model of the node-based behaviour graph interpreter of the Vivid engine *)
(* (src/src/core/scripting/VisualScripting.js): the node type registry,    *)
(* the graph store and its editing calls, the executor and the serializer. *)
(*                                                                         *)
(* JavaScript values are tagged pairs <<tag, payload>>.  A node's property *)
(* table maps a key to an entry that is either the property record the     *)
(* registry declares ({type, value, input/output}) or a bare value that an *)
(* execution function assigned in its place.                               *)
(***************************************************************************)
EXTENDS Integers, Sequences, FiniteSets, TLC

VARIABLES
    graphs,      \* this.graphs: the Map, as its entries in insertion order
    nodeTypes,   \* this.nodeTypes: type name -> definition
    isPlaying,   \* this.isPlaying
    scene,       \* the scene's objects by uuid (what getObjectByProperty finds)
    saved,       \* the JSON text last returned by serializeGraph, kept by the host
    edits,       \* number of editing and serializer calls made
    last         \* the last call: its name, arguments, result and execution log

vars == <<graphs, nodeTypes, isPlaying, scene, saved, edits, last>>

---------------------------------------------------------------------------
\* Bounds of the model.

\* Editing and serializer calls explored from each initial store.
MaxEdits == 2

\* Depth of nested executeNode calls the JavaScript stack holds before the
\* engine raises RangeError (the real limit is in the thousands).
MaxDepth == 6

---------------------------------------------------------------------------
\* JavaScript values.

Undefined == <<"undefined", 0>>
Null == <<"null", 0>>
Num(n) == <<"number", n>>
Bool(b) == <<"boolean", IF b THEN 1 ELSE 0>>
\* A reference to the scene object with uuid e.
Obj(e) == <<"object", e>>
\* A Vector3 (object.position.clone()).
Vec(p) == <<"vector", p>>
\* The result of + on operands that are not both numeric: a string whose text
\* the model does not track.
Str == <<"string", 0>>
\* A plain object rebuilt by JSON.parse from the JSON text of an object.
Plain(v) == <<"plain", v>>

\* ToBoolean: what `if (v)`, `v || d` and `c ? a : b` test.
Truthy(v) ==
    CASE v[1] = "undefined" -> FALSE
      [] v[1] = "null" -> FALSE
      [] v[1] = "number" -> v[2] # 0
      [] v[1] = "boolean" -> v[2] = 1
      [] OTHER -> TRUE

\* v || d
OrElse(v, d) == IF Truthy(v) THEN v ELSE d

IsNumeric(v) == v[1] \in {"number", "boolean"}

\* a + b (numbers add, booleans count as 0 or 1, anything else concatenates)
JsAdd(a, b) == IF IsNumeric(a) /\ IsNumeric(b) THEN Num(a[2] + b[2]) ELSE Str

\* a * b (operands of the model's graphs are numeric; others give NaN, kept as
\* a number no arithmetic changes)
JsMul(a, b) == IF IsNumeric(a) /\ IsNumeric(b) THEN Num(a[2] * b[2]) ELSE Num(0)

---------------------------------------------------------------------------
\* Property tables.

\* A declared property record { type, value, input: true | output: true }.
Prop(t, v, d) == [isRecord |-> TRUE, type |-> t, dir |-> d, value |-> v]

\* A bare value stored where a property record is expected.
Bare(v) == [isRecord |-> FALSE, type |-> "", dir |-> "", value |-> v]

NoProperties == [k \in {} |-> Bare(Undefined)]

\* this.properties[inputName]?.value
getInputValue(node, inputName) ==
    IF inputName \in DOMAIN node.properties /\ node.properties[inputName].isRecord
    THEN node.properties[inputName].value
    ELSE Undefined

\* The value a property holds: the record's value field, or the bare value.
PropertyValue(entry) == entry.value


\* JSON.parse(JSON.stringify(v)) for a value: primitives survive, undefined
\* stays absent, an object comes back as a plain copy without its identity.
JsonValue(v) ==
    CASE v[1] \in {"object", "vector"} -> Plain(v)
      [] OTHER -> v

\* JSON.parse(JSON.stringify(properties)): a deep copy of a property table.
JsonCopy(properties) ==
    [k \in DOMAIN properties |->
        [properties[k] EXCEPT !.value = JsonValue(properties[k].value)]]

---------------------------------------------------------------------------
\* Node type registry.

\* A definition: category, input and output port lists, declared properties
\* and the execution function, named by a tag that NodeExecute interprets
\* ("" when the definition has no execute member).
Definition(c, i, o, p, e) ==
    [category |-> c, inputs |-> i, outputs |-> o, properties |-> p, execute |-> e]

OnStartDef == Definition("Events", <<>>, <<"Next">>, NoProperties, "OnStart")

OnUpdateDef ==
    Definition("Events", <<>>, <<"Next">>,
               [k \in {"deltaTime"} |-> Prop("float", Num(0), "output")], "OnUpdate")

OnCollisionDef ==
    Definition("Events", <<>>, <<"Next">>,
               [k \in {"otherObject"} |-> Prop("object", Null, "output")], "OnCollision")

BranchDef ==
    Definition("Logic", <<"Exec", "Condition">>, <<"True", "False">>, NoProperties, "Branch")

SequenceDef ==
    Definition("Logic", <<"Exec">>, <<"First", "Second", "Third">>, NoProperties, "Sequence")

MathProperties ==
    [k \in {"A", "B", "Result"} |->
        IF k = "Result" THEN Prop("float", Num(0), "output")
                        ELSE Prop("float", Num(0), "input")]

AddDef == Definition("Math", <<"A", "B">>, <<"Result">>, MathProperties, "Add")

MultiplyDef == Definition("Math", <<"A", "B">>, <<"Result">>, MathProperties, "Multiply")

GetPositionDef ==
    Definition("Transform", <<"Object">>, <<"Position", "X", "Y", "Z">>,
               [k \in {"Object", "X", "Y", "Z"} |->
                   IF k = "Object" THEN Prop("object", Null, "input")
                                   ELSE Prop("float", Num(0), "output")],
               "GetPosition")

SetPositionDef ==
    Definition("Transform", <<"Exec", "Object", "Position", "X", "Y", "Z">>, <<"Next">>,
               [k \in {"Object", "X", "Y", "Z"} |->
                   IF k = "Object" THEN Prop("object", Null, "input")
                                   ELSE Prop("float", Num(0), "input")],
               "SetPosition")

ApplyForceDef ==
    Definition("Physics",
               <<"Exec", "Object", "Force", "ForceX", "ForceY", "ForceZ">>, <<"Next">>,
               [k \in {"Object", "ForceX", "ForceY", "ForceZ"} |->
                   IF k = "Object" THEN Prop("object", Null, "input")
                                   ELSE Prop("float", Num(0), "input")],
               "ApplyForce")

BuiltinNames ==
    {"OnStart", "OnUpdate", "OnCollision", "Branch", "Sequence", "Add", "Multiply",
     "GetPosition", "SetPosition", "ApplyForce"}

\* The registry after the constructor has run registerDefaultNodes.
registerDefaultNodes ==
    [n \in BuiltinNames |->
        CASE n = "OnStart" -> OnStartDef
          [] n = "OnUpdate" -> OnUpdateDef
          [] n = "OnCollision" -> OnCollisionDef
          [] n = "Branch" -> BranchDef
          [] n = "Sequence" -> SequenceDef
          [] n = "Add" -> AddDef
          [] n = "Multiply" -> MultiplyDef
          [] n = "GetPosition" -> GetPositionDef
          [] n = "SetPosition" -> SetPositionDef
          [] OTHER -> ApplyForceDef]

\* A variant of registerNodeType that keeps the definition a name already
\* has; C20_LastWriteWins tells registerNodeType from it.
registerNodeTypeOnce(types, typeName, definition) ==
    IF typeName \in DOMAIN types THEN types
    ELSE [n \in DOMAIN types \cup {typeName} |->
             IF n = typeName THEN definition ELSE types[n]]

\* this.nodeTypes.set(typeName, definition)
registerNodeType(types, typeName, definition) ==
    [n \in DOMAIN types \cup {typeName} |->
        IF n = typeName THEN definition ELSE types[n]]

\* A host-registered numeric sink: one input property, an execution function
\* that returns nothing.
SinkDef ==
    Definition("Debug", <<"input">>, <<>>,
               [k \in {"input"} |-> Prop("float", Num(0), "input")], "Sink")

\* A host-registered source whose execution function returns a flow and a
\* value in one result: { flow: 'Next', values: { Out: <its Out property> } }.
EmitDef ==
    Definition("Debug", <<"Exec">>, <<"Next", "Out">>,
               [k \in {"Out"} |-> Prop("float", Num(5), "output")], "Emit")

---------------------------------------------------------------------------
\* The graph store: a JavaScript Map, kept as its entries in insertion order.

MapHas(m, k) == \E i \in 1..Len(m) : m[i].key = k

MapIndex(m, k) == CHOOSE i \in 1..Len(m) : m[i].key = k

MapGet(m, k) == m[MapIndex(m, k)].value

\* Map.prototype.set: replaces the value of an existing key in place, or
\* appends a new entry.
MapSet(m, k, v) ==
    IF MapHas(m, k)
    THEN [m EXCEPT ![MapIndex(m, k)] = [key |-> k, value |-> v]]
    ELSE Append(m, [key |-> k, value |-> v])

\* The result of a call: ok is FALSE when the call returned null or threw.
Returned(v) == [ok |-> TRUE, threw |-> FALSE, value |-> v]
ReturnedNull == [ok |-> FALSE, threw |-> FALSE, value |-> Null]
Threw == [ok |-> FALSE, threw |-> TRUE, value |-> Undefined]

\* A variant of createGraph that keeps the graph the object already has and
\* stores the new one next to it; C9_OneGraphPerEntity tells createGraph from
\* it.
createGraphAppend(gs, uuid) ==
    LET graph == [id |-> uuid, objectId |-> uuid, nodes |-> <<>>,
                  connections |-> <<>>, variables |-> <<>>]
    IN [graphs |-> Append(gs, [key |-> uuid, value |-> graph]),
        result |-> Returned(graph)]

\* createGraph(object): a new empty graph stored under the object's uuid.
createGraph(gs, uuid) ==
    LET graph == [id |-> uuid, objectId |-> uuid, nodes |-> <<>>,
                  connections |-> <<>>, variables |-> <<>>]
    IN [graphs |-> MapSet(gs, uuid, graph), result |-> Returned(graph)]

\* `node_${Date.now()}_${Math.floor(Math.random() * 1000)}`
NodeId(ms, rnd) == <<"node", ms, rnd>>

\* `conn_${Date.now()}_${Math.floor(Math.random() * 1000)}`
ConnectionId(ms, rnd) == <<"conn", ms, rnd>>

\* A variant of addNode without the registry lookup (an unregistered type
\* gives a node with no properties); C6_UnknownTypeRejected tells addNode
\* from it.
addNodeUnchecked(gs, types, graphId, nodeType, position, ms, rnd) ==
    IF ~MapHas(gs, graphId) THEN [graphs |-> gs, result |-> ReturnedNull]
    ELSE LET graph == MapGet(gs, graphId)
             node == [id |-> NodeId(ms, rnd),
                      type |-> nodeType,
                      position |-> position,
                      properties |-> IF nodeType \in DOMAIN types
                                     THEN JsonCopy(types[nodeType].properties)
                                     ELSE NoProperties]
         IN [graphs |-> MapSet(gs, graphId,
                               [graph EXCEPT !.nodes = Append(graph.nodes, node)]),
             result |-> Returned(node)]

\* addNode(graphId, nodeType, position), with the clock reading ms and the
\* random suffix rnd.
addNode(gs, types, graphId, nodeType, position, ms, rnd) ==
    IF ~MapHas(gs, graphId) THEN [graphs |-> gs, result |-> ReturnedNull]
    ELSE IF nodeType \notin DOMAIN types THEN [graphs |-> gs, result |-> ReturnedNull]
    ELSE LET graph == MapGet(gs, graphId)
             node == [id |-> NodeId(ms, rnd),
                      type |-> nodeType,
                      position |-> position,
                      properties |-> JsonCopy(types[nodeType].properties)]
         IN [graphs |-> MapSet(gs, graphId,
                               [graph EXCEPT !.nodes = Append(graph.nodes, node)]),
             result |-> Returned(node)]

\* connectNodes(graphId, sourceNodeId, sourceOutput, targetNodeId, targetInput)
connectNodes(gs, graphId, sourceNodeId, sourceOutput, targetNodeId, targetInput, ms, rnd) ==
    IF ~MapHas(gs, graphId) THEN [graphs |-> gs, result |-> ReturnedNull]
    ELSE LET graph == MapGet(gs, graphId)
             connection == [id |-> ConnectionId(ms, rnd),
                            sourceNodeId |-> sourceNodeId,
                            sourceOutput |-> sourceOutput,
                            targetNodeId |-> targetNodeId,
                            targetInput |-> targetInput]
         IN [graphs |-> MapSet(gs, graphId,
                               [graph EXCEPT !.connections =
                                    Append(graph.connections, connection)]),
             result |-> Returned(connection)]

\* A variant of remove_node that removes the instance and leaves the
\* connections in place; C11_RemoveCascades tells remove_node from it.
removeNodeOnly(gs, graphId, nodeId) ==
    IF ~MapHas(gs, graphId) THEN [graphs |-> gs, result |-> ReturnedNull]
    ELSE LET graph == MapGet(gs, graphId)
         IN [graphs |-> MapSet(gs, graphId,
                 [graph EXCEPT !.nodes = SelectSeq(@, LAMBDA n : n.id # nodeId)]),
             result |-> Returned(Undefined)]

\* remove_node(graph, node_id) of the specification (the class has no such
\* method): removes the instance and every connection touching it.
removeNode(gs, graphId, nodeId) ==
    IF ~MapHas(gs, graphId) THEN [graphs |-> gs, result |-> ReturnedNull]
    ELSE LET graph == MapGet(gs, graphId)
         IN [graphs |-> MapSet(gs, graphId,
                 [graph EXCEPT
                     !.nodes = SelectSeq(@, LAMBDA n : n.id # nodeId),
                     !.connections =
                         SelectSeq(@, LAMBDA c : c.sourceNodeId # nodeId
                                                 /\ c.targetNodeId # nodeId)]),
             result |-> Returned(Undefined)]

\* The sequence without its k-th element.
RemoveAt(seq, k) == SubSeq(seq, 1, k - 1) \o SubSeq(seq, k + 1, Len(seq))

\* disconnect(graph, connection_id) of the specification (the class has no
\* such method): removes a single connection, the first with that id.
disconnect(gs, graphId, connectionId) ==
    IF ~MapHas(gs, graphId) THEN [graphs |-> gs, result |-> ReturnedNull]
    ELSE LET graph == MapGet(gs, graphId)
             found == {k \in 1..Len(graph.connections) :
                          graph.connections[k].id = connectionId}
         IN IF found = {} THEN [graphs |-> gs, result |-> ReturnedNull]
            ELSE [graphs |-> MapSet(gs, graphId,
                      [graph EXCEPT !.connections =
                           RemoveAt(@, CHOOSE k \in found : \A j \in found : k <= j)]),
                  result |-> Returned(Undefined)]

---------------------------------------------------------------------------
\* Execution functions of the node types.

\* The execution context: { deltaTime, object, collisionEvent }.  (update
\* also passes `time`, which no node reads.)  collisionEvent is Undefined or
\* an event { other }, given by the value of its `other` member.
Context(dt, object, hasCollision, other) ==
    [deltaTime |-> dt, object |-> object,
     hasCollision |-> hasCollision, other |-> other]

\* The ExecutionResult a node function returns.  isNull: the function returned
\* null; flow: "" when the member is absent; values: the entries of
\* result.values in insertion order.
Result(flow, multiFlow, sequential, values) ==
    [isNull |-> FALSE, flow |-> flow, multiFlow |-> multiFlow,
     sequential |-> sequential, values |-> values]

NullResult ==
    [isNull |-> TRUE, flow |-> "", multiFlow |-> <<>>, sequential |-> FALSE,
     values |-> <<>>]

Flow(port) == Result(port, <<>>, FALSE, <<>>)

Values(vs) == Result("", <<>>, FALSE, vs)

\* node.properties[key] = entry (creates the key when it is absent)
SetProperty(properties, key, entry) ==
    [k \in DOMAIN properties \cup {key} |->
        IF k = key THEN entry ELSE properties[k]]

\* What an execution function leaves behind: the node, the scene, its
\* result, and whether it threw.
Outcome(node, sc, result, threw) ==
    [node |-> node, scene |-> sc, result |-> result, threw |-> threw]

\* object && object.position: the position of a scene object
HasPosition(object, sc) == object[1] = "object" /\ object[2] \in DOMAIN sc

OnStartExecute(node, context, sc) == Outcome(node, sc, Flow("Next"), FALSE)

OnUpdateExecute(node, context, sc) ==
    Outcome([node EXCEPT !.properties =
                 SetProperty(@, "deltaTime", Bare(context.deltaTime))],
            sc, Flow("Next"), FALSE)

\* A variant of OnCollision that fires whether or not the context carries a
\* collision event; C5_NoCollisionNoFlow tells the built-in node from it.
OnCollisionAlways(node, context, sc) ==
    Outcome([node EXCEPT !.properties =
                 SetProperty(@, "otherObject", Bare(context.other))],
            sc, Flow("Next"), FALSE)

OnCollisionExecute(node, context, sc) ==
    IF context.hasCollision
    THEN Outcome([node EXCEPT !.properties =
                      SetProperty(@, "otherObject", Bare(context.other))],
                 sc, Flow("Next"), FALSE)
    ELSE Outcome(node, sc, NullResult, FALSE)

BranchExecute(node, context, sc) ==
    LET condition == getInputValue(node, "Condition")
    IN Outcome(node, sc, Flow(IF Truthy(condition) THEN "True" ELSE "False"), FALSE)

SequenceExecute(node, context, sc) ==
    Outcome(node, sc, Result("", <<"First", "Second", "Third">>, TRUE, <<>>), FALSE)

AddExecute(node, context, sc) ==
    LET a == OrElse(getInputValue(node, "A"), Num(0))
        b == OrElse(getInputValue(node, "B"), Num(0))
    IN Outcome([node EXCEPT !.properties = SetProperty(@, "Result", Bare(JsAdd(a, b)))],
               sc, Values(<< <<"Result", JsAdd(a, b)>> >>), FALSE)

MultiplyExecute(node, context, sc) ==
    LET a == OrElse(getInputValue(node, "A"), Num(0))
        b == OrElse(getInputValue(node, "B"), Num(0))
    IN Outcome([node EXCEPT !.properties = SetProperty(@, "Result", Bare(JsMul(a, b)))],
               sc, Values(<< <<"Result", JsMul(a, b)>> >>), FALSE)

GetPositionExecute(node, context, sc) ==
    LET object == OrElse(getInputValue(node, "Object"), context.object)
    IN IF HasPosition(object, sc)
       THEN LET pos == sc[object[2]].position
            IN Outcome([node EXCEPT !.properties =
                            SetProperty(SetProperty(SetProperty(@,
                                "X", Bare(pos[1])), "Y", Bare(pos[2])), "Z", Bare(pos[3]))],
                       sc,
                       Values(<< <<"Position", Vec(pos)>>, <<"X", pos[1]>>,
                                 <<"Y", pos[2]>>, <<"Z", pos[3]>> >>),
                       FALSE)
       ELSE Outcome(node, sc,
                    Values(<< <<"Position", Null>>, <<"X", Num(0)>>,
                              <<"Y", Num(0)>>, <<"Z", Num(0)>> >>),
                    FALSE)

SetPositionExecute(node, context, sc) ==
    LET object == OrElse(getInputValue(node, "Object"), context.object)
        position == getInputValue(node, "Position")
        x == OrElse(getInputValue(node, "X"), Num(0))
        y == OrElse(getInputValue(node, "Y"), Num(0))
        z == OrElse(getInputValue(node, "Z"), Num(0))
        pos == IF Truthy(position)
               THEN (IF position[1] = "vector" THEN position[2]
                     ELSE <<Undefined, Undefined, Undefined>>)
               ELSE <<x, y, z>>
    IN IF HasPosition(object, sc)
       THEN Outcome(node, [sc EXCEPT ![object[2]].position = pos], Flow("Next"), FALSE)
       ELSE Outcome(node, sc, Flow("Next"), FALSE)

ApplyForceExecute(node, context, sc) ==
    LET object == OrElse(getInputValue(node, "Object"), context.object)
        force == getInputValue(node, "Force")
        forceX == OrElse(getInputValue(node, "ForceX"), Num(0))
        forceY == OrElse(getInputValue(node, "ForceY"), Num(0))
        forceZ == OrElse(getInputValue(node, "ForceZ"), Num(0))
        applied == IF Truthy(force) THEN force ELSE Vec(<<forceX, forceY, forceZ>>)
    IN IF ~Truthy(object) THEN Outcome(node, sc, Flow("Next"), FALSE)
       ELSE IF ~(object[1] = "object" /\ object[2] \in DOMAIN sc
                 /\ sc[object[2]].getComponent)
       \* object.getComponent is not a function: TypeError
       THEN Outcome(node, sc, NullResult, TRUE)
       ELSE IF sc[object[2]].rigidBody
       THEN Outcome(node, [sc EXCEPT ![object[2]].force = applied], Flow("Next"), FALSE)
       ELSE Outcome(node, sc, Flow("Next"), FALSE)

SinkExecute(node, context, sc) == Outcome(node, sc, NullResult, FALSE)

EmitExecute(node, context, sc) ==
    Outcome(node, sc,
            Result("Next", <<>>, FALSE, << <<"Out", getInputValue(node, "Out")>> >>),
            FALSE)

\* nodeType.execute(node, context), by the definition's execute tag.
NodeExecute(tag, node, context, sc) ==
    CASE tag = "OnStart" -> OnStartExecute(node, context, sc)
      [] tag = "OnUpdate" -> OnUpdateExecute(node, context, sc)
      [] tag = "OnCollision" -> OnCollisionExecute(node, context, sc)
      [] tag = "Branch" -> BranchExecute(node, context, sc)
      [] tag = "Sequence" -> SequenceExecute(node, context, sc)
      [] tag = "Add" -> AddExecute(node, context, sc)
      [] tag = "Multiply" -> MultiplyExecute(node, context, sc)
      [] tag = "GetPosition" -> GetPositionExecute(node, context, sc)
      [] tag = "SetPosition" -> SetPositionExecute(node, context, sc)
      [] tag = "ApplyForce" -> ApplyForceExecute(node, context, sc)
      [] tag = "Emit" -> EmitExecute(node, context, sc)
      [] OTHER -> SinkExecute(node, context, sc)

---------------------------------------------------------------------------
\* The executor.

\* Entries of the execution log of a call (a record of what ran, kept for
\* stating properties; nodes are named by their index in graph.nodes).
\* exec: the execution function of `node` was invoked.
Executed(g, i) ==
    [kind |-> "exec", graph |-> g, node |-> i, src |-> 0, port |-> "",
     key |-> "", value |-> Undefined]

\* fail: the execution function of `node` threw.
Failed(g, i) ==
    [kind |-> "fail", graph |-> g, node |-> i, src |-> 0, port |-> "",
     key |-> "", value |-> Undefined]

\* overflow: the call of executeNode on `node` exceeded the call stack
\* (RangeError).
Overflowed(g, i) ==
    [kind |-> "overflow", graph |-> g, node |-> i, src |-> 0, port |-> "",
     key |-> "", value |-> Undefined]

\* dispatch: executeNode was called on `node` for a connection leaving port
\* `port` of node `src`.
Dispatched(g, src, port, i) ==
    [kind |-> "dispatch", graph |-> g, node |-> i, src |-> src, port |-> port,
     key |-> "", value |-> Undefined]

\* publish: the values branch reached the entry <<port, value>> of the result
\* of `node`.
Published(g, i, port, value) ==
    [kind |-> "publish", graph |-> g, node |-> i, src |-> i, port |-> port,
     key |-> "", value |-> value]

\* write: `value`, published on port `port` of `src`, was stored in
\* properties[key].value of `node`.
Written(g, src, port, i, key, value) ==
    [kind |-> "write", graph |-> g, node |-> i, src |-> src, port |-> port,
     key |-> key, value |-> value]

\* A frame of the JavaScript call stack: one executeNode call that has run
\* the node's function and is following its result.  stage is the branch the
\* call is in ("flow", "multiFlow", "values"), or "return" once the sequential
\* branch has executed its target; k is the next connection of that branch.
Frame(i, id, flow, multiFlow, sequential, values) ==
    [node |-> i, id |-> id, stage |-> "flow", k |-> 1, flow |-> flow,
     multiFlow |-> multiFlow, sequential |-> sequential, values |-> values]

\* The state an execution threads through: the nodes of the graph, the scene,
\* the log, whether an exception is propagating, and the call stack.
ExecState(nodes, sc, log) ==
    [nodes |-> nodes, scene |-> sc, log |-> log, thrown |-> FALSE, stack |-> <<>>]

\* graph.nodes.find(n => n.id === id): the index of the first such node, 0
\* when there is none.
FindNode(nodes, id) ==
    IF \E i \in 1..Len(nodes) : nodes[i].id = id
    THEN CHOOSE i \in 1..Len(nodes) :
             nodes[i].id = id /\ \A j \in 1..(i - 1) : nodes[j].id # id
    ELSE 0

\* A variant of the connection filter without the test of the output port:
\* a flow then follows every connection of its node.  C27_PushOnly tells the
\* executor from it.
ConnectionsFromAny(connections, id, port) ==
    SelectSeq(connections, LAMBDA c : c.sourceNodeId = id)

\* graph.connections.filter(conn => conn.sourceNodeId === node.id &&
\*                                  conn.sourceOutput === port)
ConnectionsFrom(connections, id, port) ==
    SelectSeq(connections, LAMBDA c : c.sourceNodeId = id /\ c.sourceOutput = port)

RECURSIVE ConcatPorts(_, _, _, _)
\* The connections the multiFlow loops visit, in the order they visit them.
ConcatPorts(connections, id, ports, k) ==
    IF k > Len(ports) THEN <<>>
    ELSE ConnectionsFrom(connections, id, ports[k])
         \o ConcatPorts(connections, id, ports, k + 1)

\* A variant of the value write in which the nodes of a type share one
\* property table: the value reaches the key in every node of the target's
\* type.  C21_PerInstanceTables tells the executor from it.
WriteValueShared(g, st, src, connection, value) ==
    LET target == FindNode(st.nodes, connection.targetNodeId)
        key == connection.targetInput
    IN IF target = 0 THEN st
       ELSE IF key \notin DOMAIN st.nodes[target].properties THEN st
       ELSE IF ~st.nodes[target].properties[key].isRecord THEN st
       ELSE [st EXCEPT
                !.nodes = [i \in 1..Len(st.nodes) |->
                              IF st.nodes[i].type = st.nodes[target].type
                                 /\ key \in DOMAIN st.nodes[i].properties
                                 /\ st.nodes[i].properties[key].isRecord
                              THEN [st.nodes[i] EXCEPT !.properties[key].value = value]
                              ELSE st.nodes[i]],
                !.log = Append(@, Written(g, src, connection.sourceOutput,
                                          target, key, value))]

\* A variant of the value write that keeps the first value an input received
\* in the call and drops the later ones; C23_LastWriteWins tells the executor
\* from it.
WriteValueKeep(g, st, src, connection, value) ==
    LET target == FindNode(st.nodes, connection.targetNodeId)
        key == connection.targetInput
    IN IF target = 0 THEN st
       ELSE IF key \notin DOMAIN st.nodes[target].properties THEN st
       ELSE IF ~st.nodes[target].properties[key].isRecord THEN st
       ELSE IF \E x \in 1..Len(st.log) :
                  /\ st.log[x].kind = "write"
                  /\ st.log[x].graph = g
                  /\ st.log[x].node = target
                  /\ st.log[x].key = key
       THEN st
       ELSE [st EXCEPT !.nodes[target].properties[key].value = value,
                       !.log = Append(@, Written(g, src, connection.sourceOutput,
                                                 target, key, value))]

\* targetNode.properties[connection.targetInput].value = value, guarded by
\* targetNode && targetNode.properties && targetNode.properties[targetInput].
\* A record takes the value; a falsy bare value fails the guard; a bare object
\* receives a member of its own and the table is unchanged; a truthy bare
\* primitive makes the assignment throw TypeError (class bodies are strict).
WriteValue(g, st, src, connection, value) ==
    LET target == FindNode(st.nodes, connection.targetNodeId)
        key == connection.targetInput
    IN IF target = 0 THEN st
       ELSE IF key \notin DOMAIN st.nodes[target].properties THEN st
       ELSE LET entry == st.nodes[target].properties[key]
            IN IF entry.isRecord
               THEN [st EXCEPT !.nodes[target].properties[key].value = value,
                               !.log = Append(@, Written(g, src, connection.sourceOutput,
                                                         target, key, value))]
               ELSE IF ~Truthy(entry.value) THEN st
               ELSE IF entry.value[1] \in {"number", "boolean", "string"}
               THEN [st EXCEPT !.thrown = TRUE]
               ELSE st

RECURSIVE WriteValues(_, _, _, _, _, _)
\* for (const connection of connections) of the values branch.
WriteValues(g, st, src, conns, k, value) ==
    IF k > Len(conns) \/ st.thrown THEN st
    ELSE WriteValues(g, WriteValue(g, st, src, conns[k], value), src, conns, k + 1, value)

RECURSIVE PropagateValues(_, _, _, _, _, _, _)
\* for (const [outputName, value] of Object.entries(result.values))
PropagateValues(g, connections, st, src, id, values, k) ==
    IF k > Len(values) \/ st.thrown THEN st
    ELSE PropagateValues(g, connections,
             WriteValues(g,
                 [st EXCEPT !.log = Append(@, Published(g, src, values[k][1], values[k][2]))],
                 src, ConnectionsFrom(connections, id, values[k][1]), 1, values[k][2]),
             src, id, values, k + 1)

\* What executeNode does with the outcome `out` of the execution function of
\* the i-th node: a thrown exception propagates, a null result ends the call,
\* any other result is followed (the call's frame is pushed).
FollowResult(g, connections, st, i, id, out) ==
    LET s1 == [st EXCEPT !.nodes[i] = out.node,
                         !.scene = out.scene,
                         !.log = IF out.threw
                                 THEN Append(Append(@, Executed(g, i)), Failed(g, i))
                                 ELSE Append(@, Executed(g, i)),
                         !.thrown = out.threw]
    IN IF out.threw \/ out.result.isNull THEN s1
       ELSE [s1 EXCEPT !.stack = Append(@,
                Frame(i, id,
                      IF out.result.flow # ""
                      THEN ConnectionsFrom(connections, id, out.result.flow)
                      ELSE <<>>,
                      ConcatPorts(connections, id, out.result.multiFlow, 1),
                      out.result.sequential, out.result.values))]

\* A variant of executeNode that lets a node of an unregistered type pass the
\* flow on through Next; C15_UnknownTypeInert tells executeNode from it.
executeNodeAnyType(g, connections, types, st, i, context) ==
    IF Len(st.stack) >= MaxDepth
    THEN [st EXCEPT !.thrown = TRUE, !.log = Append(@, Overflowed(g, i))]
    ELSE IF st.nodes[i].type \notin DOMAIN types
    THEN FollowResult(g, connections, st, i, st.nodes[i].id,
             OnStartExecute(st.nodes[i], context, st.scene))
    ELSE IF types[st.nodes[i].type].execute = "" THEN st
    ELSE FollowResult(g, connections, st, i, st.nodes[i].id,
             NodeExecute(types[st.nodes[i].type].execute, st.nodes[i], context, st.scene))

\* The entry of executeNode(graph, node, context) on the i-th node of graph g:
\* the type lookup and the call of the execution function.  A call nested
\* deeper than the stack holds raises RangeError.
executeNode(g, connections, types, st, i, context) ==
    IF Len(st.stack) >= MaxDepth
    THEN [st EXCEPT !.thrown = TRUE, !.log = Append(@, Overflowed(g, i))]
    ELSE IF st.nodes[i].type \notin DOMAIN types THEN st
    ELSE IF types[st.nodes[i].type].execute = "" THEN st
    ELSE FollowResult(g, connections, st, i, st.nodes[i].id,
             NodeExecute(types[st.nodes[i].type].execute, st.nodes[i], context, st.scene))

\* The stack with its top frame changed to f, and with the top frame removed.
SetTop(st, f) == [st EXCEPT !.stack[Len(st.stack)] = f]
Pop(st) == [st EXCEPT !.stack = SubSeq(@, 1, Len(@) - 1)]

\* One iteration of `for (const connection of connections)` in the flow
\* branch of the call on top of the stack.
FollowFlow(g, connections, types, st, context) ==
    LET f == st.stack[Len(st.stack)]
    IN IF f.k > Len(f.flow) THEN SetTop(st, [f EXCEPT !.stage = "multiFlow", !.k = 1])
       ELSE LET connection == f.flow[f.k]
                target == FindNode(st.nodes, connection.targetNodeId)
                s1 == SetTop(st, [f EXCEPT !.k = f.k + 1])
            IN IF target = 0 THEN s1
               ELSE executeNode(g, connections, types,
                        [s1 EXCEPT !.log = Append(@,
                             Dispatched(g, f.node, connection.sourceOutput, target))],
                        target, context)

\* A variant of the multiFlow branch without the early return of a sequential
\* result; C4_SequentialFirstWins tells the executor from it.
FollowMultiFlowAll(g, connections, types, st, context) ==
    LET f == st.stack[Len(st.stack)]
    IN IF f.k > Len(f.multiFlow) THEN SetTop(st, [f EXCEPT !.stage = "values", !.k = 1])
       ELSE LET connection == f.multiFlow[f.k]
                target == FindNode(st.nodes, connection.targetNodeId)
                s1 == SetTop(st, [f EXCEPT !.k = f.k + 1])
            IN IF target = 0 THEN s1
               ELSE executeNode(g, connections, types,
                        [s1 EXCEPT !.log = Append(@,
                             Dispatched(g, f.node, connection.sourceOutput, target))],
                        target, context)

\* One iteration of the loops of the multiFlow branch; after the first target
\* executed by a sequential result the call returns.
FollowMultiFlow(g, connections, types, st, context) ==
    LET f == st.stack[Len(st.stack)]
    IN IF f.k > Len(f.multiFlow) THEN SetTop(st, [f EXCEPT !.stage = "values", !.k = 1])
       ELSE LET connection == f.multiFlow[f.k]
                target == FindNode(st.nodes, connection.targetNodeId)
                s1 == SetTop(st, [f EXCEPT !.k = f.k + 1,
                                           !.stage = IF target # 0 /\ f.sequential
                                                     THEN "return" ELSE @])
            IN IF target = 0 THEN s1
               ELSE executeNode(g, connections, types,
                        [s1 EXCEPT !.log = Append(@,
                             Dispatched(g, f.node, connection.sourceOutput, target))],
                        target, context)

\* The next step of the call on top of the stack.
ExecuteStep(g, connections, types, st, context) ==
    LET f == st.stack[Len(st.stack)]
    IN CASE f.stage = "flow" -> FollowFlow(g, connections, types, st, context)
         [] f.stage = "multiFlow" -> FollowMultiFlow(g, connections, types, st, context)
         [] f.stage = "values" ->
                Pop(PropagateValues(g, connections, st, f.node, f.id, f.values, 1))
         [] OTHER -> Pop(st)

RECURSIVE RunToReturn(_, _, _, _, _)
\* Runs the calls on the stack until the outermost has returned or an
\* exception propagates out of it.
RunToReturn(g, connections, types, st, context) ==
    IF st.thrown \/ st.stack = <<>> THEN st
    ELSE RunToReturn(g, connections, types,
                     ExecuteStep(g, connections, types, st, context), context)

\* The nodes executeGraph runs: those whose type is registered with category
\* 'Events', in the order of graph.nodes.
EventNodes(nodes, types) ==
    SelectSeq([i \in 1..Len(nodes) |-> i],
              LAMBDA i : nodes[i].type \in DOMAIN types
                         /\ types[nodes[i].type].category = "Events")

RECURSIVE ExecuteEventNodes(_, _, _, _, _, _, _)
\* for (const eventNode of eventNodes) this.executeNode(graph, eventNode, context)
ExecuteEventNodes(g, connections, types, st, events, k, context) ==
    IF k > Len(events) \/ st.thrown THEN st
    ELSE ExecuteEventNodes(g, connections, types,
             RunToReturn(g, connections, types,
                 executeNode(g, connections, types, st, events[k], context), context),
             events, k + 1, context)

\* The outcome of a call on the interpreter: the store, the scene, the log
\* and whether the call threw.
RunState(gs, sc, log, thrown) ==
    [graphs |-> gs, scene |-> sc, log |-> log, thrown |-> thrown]

\* A variant of the end of an execution that also drops the connections whose
\* target the graph does not hold; C28_StructureUnchanged tells executeGraph
\* from it.
StoreExecutionPruning(gs, graphId, st) ==
    RunState(MapSet(gs, graphId,
                 [MapGet(gs, graphId) EXCEPT
                     !.nodes = st.nodes,
                     !.connections =
                         SelectSeq(@, LAMBDA c : FindNode(st.nodes, c.targetNodeId) # 0)]),
             st.scene, st.log, st.thrown)

\* The store after an execution of graph graphId that ended in state st (the
\* node objects of the graph are changed in place).
StoreExecution(gs, graphId, st) ==
    RunState(MapSet(gs, graphId, [MapGet(gs, graphId) EXCEPT !.nodes = st.nodes]),
             st.scene, st.log, st.thrown)

\* A variant of executeGraph without the isPlaying test; C13_PlayGate tells
\* executeGraph from it.
executeGraphUngated(run, types, playing, graphId, context) ==
    IF ~MapHas(run.graphs, graphId) THEN run
    ELSE StoreExecution(run.graphs, graphId,
             ExecuteEventNodes(graphId, MapGet(run.graphs, graphId).connections, types,
                 ExecState(MapGet(run.graphs, graphId).nodes, run.scene, run.log),
                 EventNodes(MapGet(run.graphs, graphId).nodes, types), 1, context))

\* executeGraph(graphId, context), entered with the outcome `run` so far.
executeGraph(run, types, playing, graphId, context) ==
    IF ~MapHas(run.graphs, graphId) \/ ~playing THEN run
    ELSE StoreExecution(run.graphs, graphId,
             ExecuteEventNodes(graphId, MapGet(run.graphs, graphId).connections, types,
                 ExecState(MapGet(run.graphs, graphId).nodes, run.scene, run.log),
                 EventNodes(MapGet(run.graphs, graphId).nodes, types), 1, context))

RECURSIVE UpdateGraphsAll(_, _, _, _, _)
\* A variant of the loop of update that executes every graph of the store,
\* whether or not the scene holds its object; C30_GraphsIsolated tells update
\* from it.
UpdateGraphsAll(run, types, playing, k, deltaTime) ==
    IF k > Len(run.graphs) \/ run.thrown THEN run
    ELSE UpdateGraphsAll(
             executeGraph(run, types, playing, run.graphs[k].key,
                          Context(deltaTime, Obj(run.graphs[k].key), FALSE, Undefined)),
             types, playing, k + 1, deltaTime)

RECURSIVE UpdateGraphs(_, _, _, _, _)
\* for (const [objectId, graph] of this.graphs.entries()) of update
UpdateGraphs(run, types, playing, k, deltaTime) ==
    IF k > Len(run.graphs) \/ run.thrown THEN run
    ELSE LET objectId == run.graphs[k].key
         IN IF objectId \in DOMAIN run.scene
            THEN UpdateGraphs(
                     executeGraph(run, types, playing, objectId,
                                  Context(deltaTime, Obj(objectId), FALSE, Undefined)),
                     types, playing, k + 1, deltaTime)
            ELSE UpdateGraphs(run, types, playing, k + 1, deltaTime)

\* update(deltaTime)
update(gs, types, playing, sc, deltaTime) ==
    IF ~playing THEN RunState(gs, sc, <<>>, FALSE)
    ELSE UpdateGraphs(RunState(gs, sc, <<>>, FALSE), types, playing, 1, deltaTime)

---------------------------------------------------------------------------
\* The serializer.  A JSON text is modelled by the data JSON.parse gives for
\* it; valid is FALSE for a text JSON.parse rejects.

JsonText(data) == [valid |-> TRUE, data |-> data]

\* prop.value for an entry of node.properties: the value member of a record,
\* undefined for a bare value (TypeError when the bare value is null or
\* undefined, tested by SerializeThrows).
SerializedValue(entry) == IF entry.isRecord THEN entry.value ELSE Undefined

\* Object.fromEntries(Object.entries(node.properties).map(...)), as JSON keeps
\* it: keys whose value is undefined are omitted.
SerializeProperties(properties) ==
    LET kept == {k \in DOMAIN properties : SerializedValue(properties[k]) # Undefined}
    IN [k \in kept |-> JsonValue(SerializedValue(properties[k]))]

SerializeNode(node) ==
    [id |-> node.id, type |-> node.type, position |-> node.position,
     properties |-> SerializeProperties(node.properties)]

\* Reading prop.value throws when prop is null or undefined.
SerializeThrows(graph) ==
    \E i \in 1..Len(graph.nodes) : \E k \in DOMAIN graph.nodes[i].properties :
        LET entry == graph.nodes[i].properties[k]
        IN ~entry.isRecord /\ entry.value[1] \in {"null", "undefined"}

\* Array.from(graph.variables.entries())
SerializeVariables(variables) ==
    [i \in 1..Len(variables) |-> <<variables[i].key, JsonValue(variables[i].value)>>]

\* serializeGraph(graphId)
serializeGraph(gs, graphId) ==
    IF ~MapHas(gs, graphId) THEN ReturnedNull
    ELSE LET graph == MapGet(gs, graphId)
         IN IF SerializeThrows(graph) THEN Threw
            ELSE Returned(JsonText(
                     [id |-> graph.id,
                      objectId |-> graph.objectId,
                      nodes |-> [i \in 1..Len(graph.nodes) |-> SerializeNode(graph.nodes[i])],
                      connections |-> graph.connections,
                      variables |-> SerializeVariables(graph.variables)]))

\* A variant of the property rebuild that restores every serialized key,
\* declared by the current type or not; C19_PropertiesFromRegistry tells the
\* rebuild from it.
DeserializeAllKeys(types, nodeData) ==
    IF nodeData.type \notin DOMAIN types THEN NoProperties
    ELSE LET declared == types[nodeData.type].properties
         IN [k \in DOMAIN declared \cup DOMAIN nodeData.properties |->
                IF k \notin DOMAIN declared
                THEN Prop("float", nodeData.properties[k], "input")
                ELSE IF k \in DOMAIN nodeData.properties
                THEN [declared[k] EXCEPT !.value = nodeData.properties[k]]
                ELSE declared[k]]

\* The property table deserializeGraph builds for a serialized node.
DeserializeProperties(types, nodeData) ==
    IF nodeData.type \notin DOMAIN types THEN NoProperties
    ELSE LET declared == types[nodeData.type].properties
         IN [k \in DOMAIN declared |->
                IF k \in DOMAIN nodeData.properties
                THEN [declared[k] EXCEPT !.value = nodeData.properties[k]]
                ELSE declared[k]]

DeserializeNode(types, nodeData) ==
    [id |-> nodeData.id, type |-> nodeData.type, position |-> nodeData.position,
     properties |-> DeserializeProperties(types, nodeData)]

RECURSIVE NewMap(_, _, _)
\* new Map(data.variables), from the k-th pair on
NewMap(m, pairs, k) ==
    IF k > Len(pairs) THEN m
    ELSE NewMap(MapSet(m, pairs[k][1], pairs[k][2]), pairs, k + 1)

\* A variant of deserializeGraph that drops the nodes whose type is not
\* registered; C18_UnknownTypeRetained tells deserializeGraph from it.
deserializeGraphDropping(gs, types, json) ==
    IF ~json.valid THEN [graphs |-> gs, result |-> ReturnedNull]
    ELSE LET data == json.data
             known == SelectSeq(data.nodes, LAMBDA n : n.type \in DOMAIN types)
             graph == [id |-> data.id,
                       objectId |-> data.objectId,
                       nodes |-> [i \in 1..Len(known) |-> DeserializeNode(types, known[i])],
                       connections |-> data.connections,
                       variables |-> NewMap(<<>>, data.variables, 1)]
         IN [graphs |-> MapSet(gs, graph.id, graph), result |-> Returned(graph)]

\* deserializeGraph(json)
deserializeGraph(gs, types, json) ==
    IF ~json.valid THEN [graphs |-> gs, result |-> ReturnedNull]
    ELSE LET data == json.data
             graph == [id |-> data.id,
                       objectId |-> data.objectId,
                       nodes |-> [i \in 1..Len(data.nodes) |->
                                     DeserializeNode(types, data.nodes[i])],
                       connections |-> data.connections,
                       variables |-> NewMap(<<>>, data.variables, 1)]
         IN [graphs |-> MapSet(gs, graph.id, graph), result |-> Returned(graph)]

---------------------------------------------------------------------------
\* Inputs.

\* Object uuids.
Entities == {"e1", "e2"}

\* Editor positions passed to addNode ({ x: 0, y: 0 } is the default).
Origin == [x |-> 0, y |-> 0]
Positions == {Origin}

\* A scene object: a three.js Object3D has a position; getComponent and a
\* RigidBody component are there only when the host attached them.
SceneObject(hasGetComponent, hasRigidBody) ==
    [position |-> <<Num(0), Num(0), Num(0)>>, getComponent |-> hasGetComponent,
     rigidBody |-> hasRigidBody, force |-> Undefined]

\* Scenes the interpreter is constructed with.
Scenes ==
    {[e \in {"e1", "e2"} |-> SceneObject(FALSE, FALSE)],
     [e \in {"e1"} |-> SceneObject(FALSE, FALSE)]}

\* Delta times passed to update.
DeltaTimes == {Num(1), Num(2)}

\* Contexts passed to executeGraph by the host: the default {}, an update
\* context, and a context carrying a collision event.
Contexts(g) ==
    {Context(Undefined, Undefined, FALSE, Undefined),
     Context(Num(1), Obj(g), FALSE, Undefined),
     Context(Num(1), Obj(g), TRUE, Obj("e2"))}

\* The registry of the run scenarios: the built-in types and the host's Sink
\* and Emit.
RunTypes ==
    registerNodeType(registerNodeType(registerDefaultNodes, "Sink", SinkDef),
                     "Emit", EmitDef)

\* node.properties[key].value = value, written by the host on a node object
\* that addNode returned (the i-th node of the graph).
setPropertyValue(gs, graphId, i, key, value) ==
    LET graph == MapGet(gs, graphId)
    IN MapSet(gs, graphId, [graph EXCEPT !.nodes[i].properties[key].value = value])

---------------------------------------------------------------------------
\* Stores built through the editing calls, used as initial states.

RECURSIVE AddNodes(_, _, _, _, _, _)
\* addNode for each type name of `names`, the k-th at clock reading base + k.
AddNodes(gs, types, g, base, names, k) ==
    IF k > Len(names) THEN gs
    ELSE AddNodes(addNode(gs, types, g, names[k], Origin, base + k, 0).graphs,
                  types, g, base, names, k + 1)

RECURSIVE Connect(_, _, _, _, _)
\* connectNodes for each link <<source, output, target, input>> of `links`,
\* the nodes named by their place in `names` (0: an id no node has).
Connect(gs, g, base, links, k) ==
    IF k > Len(links) THEN gs
    ELSE Connect(connectNodes(gs, g, NodeId(base + links[k][1], 0), links[k][2],
                              NodeId(base + links[k][3], 0), links[k][4],
                              base + 10 + k, 0).graphs,
                 g, base, links, k + 1)

\* createGraph, then the addNode and connectNodes calls.
BuildGraph(gs, g, base, names, links) ==
    Connect(AddNodes(createGraph(gs, g).graphs, RunTypes, g, base, names, 1),
            g, base, links, 1)

\* OnUpdate.deltaTime -> Add.A, Add.B = 10, Add.Result -> Sink.input
DataFlowStore ==
    setPropertyValue(
        BuildGraph(<<>>, "e1", 0, <<"OnUpdate", "Add", "Sink">>,
                   << <<1, "deltaTime", 2, "A">>, <<2, "Result", 3, "input">> >>),
        "e1", 2, "B", Num(10))

\* The same, with OnUpdate.Next also connected to the Add node.
DrivenDataFlowStore ==
    setPropertyValue(
        BuildGraph(<<>>, "e1", 0, <<"OnUpdate", "Add", "Sink">>,
                   << <<1, "deltaTime", 2, "A">>, <<1, "Next", 2, "A">>,
                      <<2, "Result", 3, "input">> >>),
        "e1", 2, "B", Num(10))

\* OnStart.Next -> Add (B = b) and -> Branch.Exec; Add.Result ->
\* Branch.Condition; Branch.True -> Sink 4, Branch.False -> Sink 5.
BranchStore(b) ==
    setPropertyValue(
        BuildGraph(<<>>, "e1", 0, <<"OnStart", "Add", "Branch", "Sink", "Sink">>,
                   << <<1, "Next", 2, "A">>, <<2, "Result", 3, "Condition">>,
                      <<1, "Next", 3, "Exec">>, <<3, "True", 4, "input">>,
                      <<3, "False", 5, "input">> >>),
        "e1", 2, "B", b)

\* OnStart.Next -> Sequence.Exec; First, Second and Third each to a Sink.
SequenceStore ==
    BuildGraph(<<>>, "e1", 0, <<"OnStart", "Sequence", "Sink", "Sink", "Sink">>,
               << <<1, "Next", 2, "Exec">>, <<2, "First", 3, "input">>,
                  <<2, "Second", 4, "input">>, <<2, "Third", 5, "input">> >>)

\* First connected to an id no node has; Second and Third to Sinks.
SequenceDanglingStore ==
    BuildGraph(<<>>, "e1", 0, <<"OnStart", "Sequence", "Sink", "Sink", "Sink">>,
               << <<1, "Next", 2, "Exec">>, <<2, "First", 0, "input">>,
                  <<2, "Second", 4, "input">>, <<2, "Third", 5, "input">> >>)

\* Second connected twice (fan-out), First not connected.
SequenceFanOutStore ==
    BuildGraph(<<>>, "e1", 0, <<"OnStart", "Sequence", "Sink", "Sink", "Sink">>,
               << <<1, "Next", 2, "Exec">>, <<2, "Second", 3, "input">>,
                  <<2, "Second", 4, "input">>, <<2, "Third", 5, "input">> >>)

\* e1: OnCollision.Next -> SetPosition.Exec -> Sink; e2: OnUpdate.Next ->
\* SetPosition.Exec.
CollisionStore ==
    BuildGraph(
        BuildGraph(<<>>, "e1", 0, <<"OnCollision", "SetPosition", "Sink">>,
                   << <<1, "Next", 2, "Exec">>, <<2, "Next", 3, "input">> >>),
        "e2", 20, <<"OnUpdate", "SetPosition">>, << <<1, "Next", 2, "Exec">> >>)

\* e1: OnUpdate.Next -> ApplyForce, then a second event node OnStart.Next ->
\* Sink; e2: OnUpdate.Next -> SetPosition.
FailureStore ==
    BuildGraph(
        BuildGraph(<<>>, "e1", 0, <<"OnUpdate", "ApplyForce", "OnStart", "Sink">>,
                   << <<1, "Next", 2, "Exec">>, <<3, "Next", 4, "input">> >>),
        "e2", 20, <<"OnUpdate", "SetPosition">>, << <<1, "Next", 2, "Exec">> >>)

\* OnStart.Next -> Branch.Exec and Branch.False -> Branch.Exec (a self-loop).
CycleStore ==
    BuildGraph(<<>>, "e1", 0, <<"OnStart", "Branch">>,
               << <<1, "Next", 2, "Exec">>, <<2, "False", 2, "Exec">> >>)

\* A flow connection into an event node: OnStart.Next -> OnUpdate, and
\* OnUpdate.Next -> Sink.
EventTargetStore ==
    BuildGraph(<<>>, "e1", 0, <<"OnStart", "OnUpdate", "Sink">>,
               << <<1, "Next", 2, "Exec">>, <<2, "Next", 3, "input">> >>)

\* A result with a flow and a value for the same target: OnStart.Next ->
\* Emit.Exec, Emit.Next -> Add and Emit.Out -> Add.A; Add.Result -> Sink.input.
EmitStore ==
    BuildGraph(<<>>, "e1", 0, <<"OnStart", "Emit", "Add", "Sink">>,
               << <<1, "Next", 2, "Exec">>, <<2, "Next", 3, "A">>,
                  <<2, "Out", 3, "A">>, <<3, "Result", 4, "input">> >>)

\* An input written only in the ticks that carry a collision:
\* OnCollision.Next -> Add 2 (B = 5), Add 2.Result -> Add 4.A,
\* OnUpdate.Next -> Add 4, Add 4.Result -> Sink.input.
StaleStore ==
    setPropertyValue(
        BuildGraph(<<>>, "e1", 0, <<"OnCollision", "Add", "OnUpdate", "Add", "Sink">>,
                   << <<1, "Next", 2, "A">>, <<2, "Result", 4, "A">>,
                      <<3, "Next", 4, "A">>, <<4, "Result", 5, "input">> >>),
        "e1", 2, "B", Num(5))

\* e1: two sources write one input in a tick: OnStart.Next -> Add 2 (B = 1),
\* OnUpdate.Next -> Add 4 (B = 2), both Results -> Sink.input.  e2: a
\* connection whose target id is a node of e1: OnUpdate.Next -> e1's Sink.
FanInStore ==
    setPropertyValue(
        setPropertyValue(
            BuildGraph(
                BuildGraph(<<>>, "e1", 0, <<"OnStart", "Add", "OnUpdate", "Add", "Sink">>,
                           << <<1, "Next", 2, "A">>, <<2, "Result", 5, "input">>,
                              <<3, "Next", 4, "A">>, <<4, "Result", 5, "input">> >>),
                "e2", 20, <<"OnUpdate", "Sink">>, << <<1, "Next", -15, "input">> >>),
            "e1", 2, "B", Num(1)),
        "e1", 4, "B", Num(2))

RunStores ==
    {DataFlowStore, DrivenDataFlowStore, BranchStore(Num(0)), BranchStore(Num(1)),
     SequenceStore, SequenceDanglingStore, SequenceFanOutStore, CollisionStore,
     FailureStore, CycleStore, EventTargetStore, EmitStore, StaleStore, FanInStore}

\* A node and a connection of a saved text.
SavedNode(k, type, properties) ==
    [id |-> NodeId(30 + k, 0), type |-> type, position |-> Origin,
     properties |-> properties]

SavedConnection(k, source, output, target, input) ==
    [id |-> ConnectionId(40 + k, 0),
     sourceNodeId |-> NodeId(30 + source, 0), sourceOutput |-> output,
     targetNodeId |-> NodeId(30 + target, 0), targetInput |-> input]

\* A text saved by a host whose registry differed: its 'Ghost' type is not
\* registered here and its 'Add' type had a property Legacy and stored no B or
\* Result.  OnStart.Next -> Ghost and -> Add; Ghost.Next -> Sink;
\* OnUpdate.Next -> Add.
ForeignJson ==
    JsonText([id |-> "e1",
              objectId |-> "e1",
              nodes |-> <<SavedNode(1, "OnStart", <<>>),
                          SavedNode(2, "Ghost", [k \in {"A"} |-> Num(5)]),
                          SavedNode(3, "Add", [k \in {"A", "Legacy"} |->
                                                 IF k = "A" THEN Num(7) ELSE Num(3)]),
                          SavedNode(4, "Sink", [k \in {"input"} |-> Num(0)]),
                          SavedNode(5, "OnUpdate", <<>>)>>,
              connections |-> <<SavedConnection(1, 1, "Next", 2, "Exec"),
                                SavedConnection(2, 1, "Next", 3, "A"),
                                SavedConnection(3, 2, "Next", 4, "input"),
                                SavedConnection(4, 5, "Next", 3, "A")>>,
              variables |-> << <<"score", Num(1)>> >>])

---------------------------------------------------------------------------
\* The calls, as actions.

\* A text JSON.parse rejects (the host has saved nothing yet).
NoJson == [valid |-> FALSE, data |-> <<>>]

Call(op, args, result, log) == [op |-> op, args |-> args, result |-> result, log |-> log]

NoCall == Call("new", <<>>, ReturnedNull, <<>>)

\* The outcome of a run, as the result of the call.
RunResult(run) == IF run.thrown THEN Threw ELSE Returned(Undefined)

Play ==
    /\ isPlaying' = TRUE
    /\ last' = Call("play", <<>>, Returned(Undefined), <<>>)
    /\ UNCHANGED <<graphs, nodeTypes, scene, saved, edits>>

Stop ==
    /\ isPlaying' = FALSE
    /\ last' = Call("stop", <<>>, Returned(Undefined), <<>>)
    /\ UNCHANGED <<graphs, nodeTypes, scene, saved, edits>>

\* The state after a call that executed graphs with outcome `run`.
Ran(op, args, run) ==
    /\ graphs' = run.graphs
    /\ scene' = run.scene
    /\ last' = Call(op, args, RunResult(run), run.log)
    /\ UNCHANGED <<nodeTypes, isPlaying, saved, edits>>

Update(deltaTime) ==
    Ran("update", <<deltaTime>>, update(graphs, nodeTypes, isPlaying, scene, deltaTime))

ExecuteGraph(graphId, context) ==
    Ran("executeGraph", <<graphId, context>>,
        executeGraph(RunState(graphs, scene, <<>>, FALSE), nodeTypes, isPlaying,
                     graphId, context))

\* The state after an editing call with outcome `out`.
Edited(op, args, out) ==
    /\ edits < MaxEdits
    /\ edits' = edits + 1
    /\ graphs' = out.graphs
    /\ last' = Call(op, args, out.result, <<>>)
    /\ UNCHANGED <<isPlaying, scene>>

\* The state after serializeGraph returned `result`; the host keeps the text.
Serialized(graphId, result) ==
    /\ saved' = IF result.ok THEN result.value ELSE saved
    /\ last' = Call("serializeGraph", <<graphId>>, result, <<>>)
    /\ edits < MaxEdits
    /\ edits' = edits + 1
    /\ UNCHANGED <<graphs, nodeTypes, isPlaying, scene>>

SerializeGraph(graphId) == Serialized(graphId, serializeGraph(graphs, graphId))

\* deserializeGraph(json) on the text the host kept.
DeserializeGraph ==
    /\ Edited("deserializeGraph", <<saved>>, deserializeGraph(graphs, nodeTypes, saved))
    /\ UNCHANGED <<nodeTypes, saved>>

Max(S) == CHOOSE x \in S : \A y \in S : y <= x
Min(S) == CHOOSE x \in S : \A y \in S : x <= y

\* The clock readings in the ids of the store.
StampsOf(gs) ==
    UNION {{gs[k].value.nodes[i].id[2] : i \in 1..Len(gs[k].value.nodes)}
           \cup {gs[k].value.connections[i].id[2] :
                    i \in 1..Len(gs[k].value.connections)} : k \in 1..Len(gs)}

\* Date.now() at a call: the millisecond of the latest id, or the next one.
Clock(gs) == LET latest == Max(StampsOf(gs) \cup {1}) IN {latest, latest + 1}

AddNode(graphId, nodeType, position, ms, rnd) ==
    /\ Edited("addNode", <<graphId, nodeType, position>>,
              addNode(graphs, nodeTypes, graphId, nodeType, position, ms, rnd))
    /\ UNCHANGED <<nodeTypes, saved>>

Init ==
    /\ graphs \in RunStores
    /\ nodeTypes = RunTypes
    /\ isPlaying = FALSE
    /\ scene \in Scenes
    /\ saved \in {NoJson, ForeignJson}
    /\ edits = 0
    /\ last = NoCall

Next ==
    \/ Play
    \/ Stop
    \/ \E deltaTime \in DeltaTimes : Update(deltaTime)
    \/ \E g \in Entities : \E context \in Contexts(g) : ExecuteGraph(g, context)
    \/ \E g \in Entities : SerializeGraph(g)
    \/ DeserializeGraph

Spec == Init /\ [][Next]_vars

\* The calls that create nodes and write their property tables, explored
\* from the stores in which nodes of one type sit side by side.
InstanceStores == {StaleStore, EmitStore, FanInStore}

InstanceInit ==
    /\ graphs \in InstanceStores
    /\ nodeTypes = RunTypes
    /\ isPlaying = FALSE
    /\ scene \in Scenes
    /\ saved = NoJson
    /\ edits = 0
    /\ last = NoCall

InstanceNext ==
    \/ Play
    \/ Stop
    \/ \E deltaTime \in DeltaTimes : Update(deltaTime)
    \/ \E g \in Entities : \E context \in Contexts(g) : ExecuteGraph(g, context)
    \/ \E g \in Entities :
          AddNode(g, "Add", Origin, Max(StampsOf(graphs) \cup {1}) + 1, 0)

InstanceSpec == InstanceInit /\ [][InstanceNext]_vars

---------------------------------------------------------------------------
\* The editing calls, explored from a small store.

\* Type names passed to addNode: a built-in type, the host's Sink (registered
\* only once the host has called registerNodeType) and a name never registered.
AddableTypes == {"OnUpdate", "Add", "Sink", "Ghost"}

\* Type names the host registers a definition under: a new one and a
\* built-in one.
RegisteredNames == {"Sink", "Add"}

\* Port names <<sourceOutput, targetInput>> passed to connectNodes: declared
\* on OnUpdate and Add, or on neither.
PortPairs == {<<"Next", "A">>, <<"Bogus", "A">>, <<"Next", "Bogus">>}

\* Math.floor(Math.random() * 1000), drawn from two of its thousand values.
RandomSuffixes == {0, 1}

\* An id that no node has (the clock readings of the model start at 1).
MissingId == NodeId(0, 0)

\* The first and the last node id of graph g (MissingId when it has no node).
FirstId(gs, g) ==
    IF MapHas(gs, g) /\ MapGet(gs, g).nodes # <<>>
    THEN MapGet(gs, g).nodes[1].id ELSE MissingId

LastId(gs, g) ==
    IF MapHas(gs, g) /\ MapGet(gs, g).nodes # <<>>
    THEN MapGet(gs, g).nodes[Len(MapGet(gs, g).nodes)].id ELSE MissingId

\* The endpoints <<sourceNodeId, targetNodeId>> passed to connectNodes for
\* graph g: two of its nodes, an id no node has at either end, and a node of
\* another graph as the target.
EndPairs(gs, g) ==
    {<<FirstId(gs, g), LastId(gs, g)>>, <<MissingId, LastId(gs, g)>>,
     <<FirstId(gs, g), MissingId>>}
    \cup {<<FirstId(gs, g), FirstId(gs, h)>> : h \in Entities \ {g}}

CreateGraph(uuid) ==
    /\ Edited("createGraph", <<uuid>>, createGraph(graphs, uuid))
    /\ UNCHANGED <<nodeTypes, saved>>

ConnectNodes(graphId, sourceNodeId, sourceOutput, targetNodeId, targetInput, ms, rnd) ==
    /\ Edited("connectNodes",
              <<graphId, sourceNodeId, sourceOutput, targetNodeId, targetInput>>,
              connectNodes(graphs, graphId, sourceNodeId, sourceOutput, targetNodeId,
                           targetInput, ms, rnd))
    /\ UNCHANGED <<nodeTypes, saved>>

RemoveNode(graphId, nodeId) ==
    /\ Edited("removeNode", <<graphId, nodeId>>, removeNode(graphs, graphId, nodeId))
    /\ UNCHANGED <<nodeTypes, saved>>

Disconnect(graphId, connectionId) ==
    /\ Edited("disconnect", <<graphId, connectionId>>,
              disconnect(graphs, graphId, connectionId))
    /\ UNCHANGED <<nodeTypes, saved>>

\* The id of the last connection of graph g (an id no connection has when it
\* has none).
LastConnectionId(gs, g) ==
    IF MapHas(gs, g) /\ MapGet(gs, g).connections # <<>>
    THEN MapGet(gs, g).connections[Len(MapGet(gs, g).connections)].id
    ELSE ConnectionId(0, 0)

RegisterNodeType(typeName, definition) ==
    /\ edits < MaxEdits
    /\ edits' = edits + 1
    /\ nodeTypes' = registerNodeType(nodeTypes, typeName, definition)
    /\ last' = Call("registerNodeType", <<typeName, definition>>, Returned(Undefined), <<>>)
    /\ UNCHANGED <<graphs, isPlaying, scene, saved>>

\* e1: an OnUpdate and an Add node, OnUpdate.Next -> Add.B; e2: an OnUpdate
\* node.
EditStore ==
    BuildGraph(BuildGraph(<<>>, "e1", 0, <<"OnUpdate", "Add">>,
                          << <<1, "Next", 2, "B">> >>),
               "e2", 2, <<"OnUpdate">>, <<>>)

EditInit ==
    /\ graphs \in {<<>>, EditStore}
    /\ nodeTypes = registerDefaultNodes
    /\ isPlaying = FALSE
    /\ scene = [e \in Entities |-> SceneObject(FALSE, FALSE)]
    /\ saved = NoJson
    /\ edits = 0
    /\ last = NoCall

EditNext ==
    \/ \E uuid \in Entities : CreateGraph(uuid)
    \/ \E g \in Entities, t \in AddableTypes, p \in Positions,
          ms \in Clock(graphs), rnd \in RandomSuffixes : AddNode(g, t, p, ms, rnd)
    \/ \E g \in Entities : \E ends \in EndPairs(graphs, g), ports \in PortPairs,
          rnd \in RandomSuffixes :
          ConnectNodes(g, ends[1], ports[1], ends[2], ports[2],
                       Max(StampsOf(graphs) \cup {1}), rnd)
    \/ \E g \in Entities : \E id \in {FirstId(graphs, g), LastId(graphs, g)} :
          RemoveNode(g, id)
    \/ \E g \in Entities : Disconnect(g, LastConnectionId(graphs, g))
    \/ \E typeName \in RegisteredNames : RegisterNodeType(typeName, SinkDef)
    \/ \E g \in Entities : SerializeGraph(g)
    \/ DeserializeGraph

EditSpec == EditInit /\ [][EditNext]_vars

---------------------------------------------------------------------------
\* Properties.

\* The graph stored under key g.
GraphOf(g) == MapGet(graphs, g)

\* The log of the last call, and its entries of one kind.
Log == last.log

Ticked == last.op \in {"update", "executeGraph"}

\* Two graphs with the same node ids, node types, property values,
\* connection list and variable table.
SameGraph(G, H) ==
    /\ Len(G.nodes) = Len(H.nodes)
    /\ \A i \in 1..Len(G.nodes) :
          /\ G.nodes[i].id = H.nodes[i].id
          /\ G.nodes[i].type = H.nodes[i].type
          /\ DOMAIN G.nodes[i].properties = DOMAIN H.nodes[i].properties
          /\ \A k \in DOMAIN G.nodes[i].properties :
                PropertyValue(G.nodes[i].properties[k])
                    = PropertyValue(H.nodes[i].properties[k])
    /\ G.connections = H.connections
    /\ G.variables = H.variables

\* G survives serializeGraph followed by deserializeGraph.
RoundTrips(G, json) ==
    /\ json.ok
    /\ deserializeGraph(graphs, nodeTypes, json.value).result.ok
    /\ SameGraph(G, deserializeGraph(graphs, nodeTypes, json.value).result.value)

\* C1: for every graph G of the store, at any point of its life,
\* deserializeGraph(serializeGraph(G)) with the same registry has the node ids,
\* node types, property values, connections and variables of G.
C1_RoundTrip ==
    \A k \in 1..Len(graphs) :
        RoundTrips(graphs[k].value, serializeGraph(graphs, graphs[k].key))

\* The graph has a data connection from `output` of the node at index i to
\* `input` of the node at index j.
Wired(G, i, output, j, input) ==
    \E k \in 1..Len(G.connections) :
        /\ G.connections[k].sourceNodeId = G.nodes[i].id
        /\ G.connections[k].sourceOutput = output
        /\ G.connections[k].targetNodeId = G.nodes[j].id
        /\ G.connections[k].targetInput = input

\* OnUpdate.deltaTime -> Add.A, Add.B = 10, Add.Result -> sink.input.
IsDataFlowGraph(G) ==
    /\ Len(G.nodes) = 3
    /\ G.nodes[1].type = "OnUpdate"
    /\ G.nodes[2].type = "Add"
    /\ G.nodes[3].type = "Sink"
    /\ Wired(G, 1, "deltaTime", 2, "A")
    /\ Wired(G, 2, "Result", 3, "input")
    /\ getInputValue(G.nodes[2], "B") = Num(10)

\* C2: a tick with delta time d while playing, on an entity whose graph is
\* OnUpdate.deltaTime -> Add.A, Add.B = 10, Add.Result -> sink.input, leaves
\* d + 10 in the sink's input.
C2_DataFlow ==
    ( /\ last.op = "update"
      /\ isPlaying
      /\ ~last.result.threw
      /\ MapHas(graphs, "e1")
      /\ "e1" \in DOMAIN scene
      /\ IsDataFlowGraph(GraphOf("e1")) )
    => getInputValue(GraphOf("e1").nodes[3], "input") = JsAdd(last.args[1], Num(10))

\* The node a log entry is about, and the entries that execute a node of
\* type t.
NodeOf(e) == GraphOf(e.graph).nodes[e.node]

Execs(t) ==
    {x \in 1..Len(Log) : Log[x].kind = "exec" /\ NodeOf(Log[x]).type = t}

\* Entry y belongs to the invocation that entry x (an exec) started: it comes
\* after x and before the next execution of the same node.
InInvocation(x, y) ==
    /\ y > x
    /\ \A z \in (x + 1)..y :
          ~(/\ Log[z].kind = "exec"
            /\ Log[z].graph = Log[x].graph
            /\ Log[z].node = Log[x].node)

\* The executeNode calls made by the invocation that entry x started.
DispatchesBy(x) ==
    {y \in 1..Len(Log) :
        /\ InInvocation(x, y)
        /\ Log[y].kind = "dispatch"
        /\ Log[y].graph = Log[x].graph
        /\ Log[y].src = Log[x].node}

\* The nodes of G a connection leaving `port` of node i leads to.
Targets(G, i, port) ==
    {j \in 1..Len(G.nodes) :
        \E k \in 1..Len(G.connections) :
            /\ G.connections[k].sourceNodeId = G.nodes[i].id
            /\ G.connections[k].sourceOutput = port
            /\ FindNode(G.nodes, G.connections[k].targetNodeId) = j}

\* The values published, before entry x, on a port connected to Condition of
\* the node entry x executes.
ConditionDeliveries(x) ==
    {y \in 1..(x - 1) :
        /\ Log[y].kind = "publish"
        /\ Log[y].graph = Log[x].graph
        /\ Wired(GraphOf(Log[x].graph), Log[y].node, Log[y].port,
                 Log[x].node, "Condition")}

\* The Condition of the Branch that entry x executes: the last value
\* delivered to it in this tick, else the value set on the node.
ConditionOf(x) ==
    IF ConditionDeliveries(x) = {}
    THEN Truthy(getInputValue(NodeOf(Log[x]), "Condition"))
    ELSE Truthy(Log[Max(ConditionDeliveries(x))].value)

BranchPort(x) == IF ConditionOf(x) THEN "True" ELSE "False"

\* C3: when a Branch node is executed in a tick, the nodes connected to its
\* True output, and only those, are executed by it if its Condition (set on
\* the node or delivered by a value connection) is true; those connected to
\* False, and only those, if it is false.
C3_BranchRouting ==
    (Ticked /\ ~last.result.threw) =>
        \A x \in Execs("Branch") :
            /\ \A y \in DispatchesBy(x) : Log[y].port = BranchPort(x)
            /\ \A j \in Targets(GraphOf(Log[x].graph), Log[x].node, BranchPort(x)) :
                  \E y \in DispatchesBy(x) : Log[y].node = j

\* The positions, in the declared outputs of the Sequence type, of the ports
\* of node i that have a connection to a node of the graph.
LivePorts(G, i) ==
    {k \in 1..Len(nodeTypes["Sequence"].outputs) :
        Targets(G, i, nodeTypes["Sequence"].outputs[k]) # {}}

\* The target of the first connection of `port` of node i that leads to a
\* node of the graph.
FirstTarget(G, i, port) ==
    LET live == {k \in 1..Len(G.connections) :
                    /\ G.connections[k].sourceNodeId = G.nodes[i].id
                    /\ G.connections[k].sourceOutput = port
                    /\ FindNode(G.nodes, G.connections[k].targetNodeId) # 0}
    IN FindNode(G.nodes, G.connections[Min(live)].targetNodeId)

C4_WitnessSkip ==
    /\ Ticked
    /\ \E x \in Execs("Sequence") :
          /\ LivePorts(GraphOf(Log[x].graph), Log[x].node) = {2, 3}
          /\ \E y \in DispatchesBy(x) : Log[y].port = "Second"

\* The context of the last call carries no collision event (update never
\* passes one).
NoCollisionEvent ==
    \/ last.op = "update"
    \/ last.op = "executeGraph" /\ ~last.args[2].hasCollision

\* C5: an OnCollision node executed in a tick whose context carries no
\* collision event makes no executeNode call and publishes no value, whatever
\* is connected to its Next output.
C5_NoCollisionNoFlow ==
    NoCollisionEvent =>
        \A x \in Execs("OnCollision") :
            \A y \in 1..Len(Log) :
                (Log[y].graph = Log[x].graph /\ Log[y].src = Log[x].node)
                    => Log[y].kind = "exec"

\* An OnCollision node with a live connection on Next was executed in a tick
\* without a collision event.
C5_Witness ==
    /\ NoCollisionEvent
    /\ \E x \in Execs("OnCollision") :
          Targets(GraphOf(Log[x].graph), Log[x].node, "Next") # {}

\* The ids of the nodes of G.
NodeIds(G) == {G.nodes[i].id : i \in 1..Len(G.nodes)}

\* C6: addNode with a type name that is not in the registry returns no node
\* and leaves every graph of the store (nodes and connections) unchanged.
C6_UnknownTypeRejected ==
    [][(last'.op = "addNode" /\ last'.args[2] \notin DOMAIN nodeTypes)
          => (~last'.result.ok /\ graphs' = graphs)]_vars

\* addNode was called on an existing graph with an unregistered type name and
\* returned no node.
C6_Witness ==
    /\ last.op = "addNode"
    /\ last.args[2] \notin DOMAIN nodeTypes
    /\ MapHas(graphs, last.args[1])
    /\ NodeIds(GraphOf(last.args[1])) # {}
    /\ ~last.result.ok

\* C7: connectNodes fails and adds no connection when the source or the
\* target id is not a node of the given graph; in every state each stored
\* connection's sourceNodeId and targetNodeId are ids of nodes of its graph.
C7_EndpointsExist ==
    \A k \in 1..Len(graphs) :
        \A c \in 1..Len(graphs[k].value.connections) :
            /\ graphs[k].value.connections[c].sourceNodeId \in NodeIds(graphs[k].value)
            /\ graphs[k].value.connections[c].targetNodeId \in NodeIds(graphs[k].value)

\* The declared outputs and inputs of the type of the node of G with this
\* id; every port name when G has no such node or its type is not registered.
DeclaredPorts(G, id, side) ==
    IF FindNode(G.nodes, id) = 0 THEN {"Next", "A", "Bogus"}
    ELSE IF G.nodes[FindNode(G.nodes, id)].type \notin DOMAIN nodeTypes
    THEN {"Next", "A", "Bogus"}
    ELSE LET ports == IF side = "outputs"
                      THEN nodeTypes[G.nodes[FindNode(G.nodes, id)].type].outputs
                      ELSE nodeTypes[G.nodes[FindNode(G.nodes, id)].type].inputs
         IN {ports[i] : i \in 1..Len(ports)}

\* C8: connectNodes fails and adds no connection when sourceOutput is not a
\* declared output of the source node's type or targetInput is not a declared
\* input of the target node's type; every stored connection names declared
\* ports on both ends.
C8_PortsDeclared ==
    \A k \in 1..Len(graphs) :
        \A c \in 1..Len(graphs[k].value.connections) :
            /\ graphs[k].value.connections[c].sourceOutput
                   \in DeclaredPorts(graphs[k].value,
                                     graphs[k].value.connections[c].sourceNodeId, "outputs")
            /\ graphs[k].value.connections[c].targetInput
                   \in DeclaredPorts(graphs[k].value,
                                     graphs[k].value.connections[c].targetNodeId, "inputs")

\* No two entries of the store have the same key.
UniqueKeys ==
    \A j, k \in 1..Len(graphs) : graphs[j].key = graphs[k].key => j = k

\* C9 as claimed: the store holds at most one graph per entity id, and
\* createGraph for an entity that already has a graph fails, leaving the
\* existing graph in place.
C9_CreateExistingFails ==
    [][/\ UniqueKeys'
       /\ (last'.op = "createGraph" /\ MapHas(graphs, last'.args[1]))
             => (~last'.result.ok /\ graphs' = graphs)]_vars

\* The empty graph createGraph makes for uuid.
EmptyGraph(uuid) ==
    [id |-> uuid, objectId |-> uuid, nodes |-> <<>>, connections |-> <<>>,
     variables |-> <<>>]

\* C9: the store holds at most one graph per entity id, and createGraph for
\* an entity that already has a graph replaces that graph by a new empty one,
\* which it returns; the graphs of the other entities stay in place.
C9_OneGraphPerEntity ==
    [][/\ UniqueKeys'
       /\ (last'.op = "createGraph" /\ MapHas(graphs, last'.args[1]))
             => /\ last'.result.ok
                /\ last'.result.value = EmptyGraph(last'.args[1])
                /\ Len(graphs') = Len(graphs)
                /\ \A k \in 1..Len(graphs) :
                      /\ graphs'[k].key = graphs[k].key
                      /\ graphs'[k].value =
                            IF graphs[k].key = last'.args[1]
                            THEN EmptyGraph(last'.args[1])
                            ELSE graphs[k].value]_vars

\* createGraph was the first call, for e1, on the store in which e1 and e2
\* have graphs with nodes: the graph of e1 is now empty.
C9_Witness ==
    /\ last.op = "createGraph"
    /\ last.args[1] = "e1"
    /\ edits = 1
    /\ MapHas(graphs, "e2")
    /\ GraphOf("e2").nodes # <<>>
    /\ GraphOf("e1").nodes = <<>>

\* C10: no two nodes of one graph have the same id.
C10_UniqueNodeIds ==
    \A k \in 1..Len(graphs) :
        \A i, j \in 1..Len(graphs[k].value.nodes) :
            graphs[k].value.nodes[i].id = graphs[k].value.nodes[j].id => i = j

\* C11: after removing node N from a graph, N is not a node of the graph and
\* no connection of the graph has N as its source or its target.
C11_RemoveCascades ==
    (last.op = "removeNode" /\ last.result.ok) =>
        /\ last.args[2] \notin NodeIds(GraphOf(last.args[1]))
        /\ \A k \in 1..Len(GraphOf(last.args[1]).connections) :
              /\ GraphOf(last.args[1]).connections[k].sourceNodeId # last.args[2]
              /\ GraphOf(last.args[1]).connections[k].targetNodeId # last.args[2]

\* The first call removed the OnUpdate node of e1, which had a connection to
\* the Add node; the Add node is still there.
C11_Witness ==
    /\ last.op = "removeNode"
    /\ last.result.ok
    /\ edits = 1
    /\ last.args = <<"e1", NodeId(1, 0)>>
    /\ NodeIds(GraphOf("e1")) = {NodeId(2, 0)}
    /\ MapHas(graphs, "e2")

\* The arguments <<graphId, sourceNodeId, sourceOutput, targetNodeId,
\* targetInput>> of a connectNodes call name two nodes of the graph and ports
\* their types declare.
ValidConnect(args) ==
    /\ MapHas(graphs, args[1])
    /\ args[2] \in NodeIds(GraphOf(args[1]))
    /\ args[4] \in NodeIds(GraphOf(args[1]))
    /\ NodeOf([graph |-> args[1],
               node |-> FindNode(GraphOf(args[1]).nodes, args[2])]).type
           \in DOMAIN nodeTypes
    /\ NodeOf([graph |-> args[1],
               node |-> FindNode(GraphOf(args[1]).nodes, args[4])]).type
           \in DOMAIN nodeTypes
    /\ args[3] \in DeclaredPorts(GraphOf(args[1]), args[2], "outputs")
    /\ args[5] \in DeclaredPorts(GraphOf(args[1]), args[4], "inputs")

\* The connection list of graph g without its last element.
AllButLast(g) ==
    SubSeq(GraphOf(g).connections, 1, Len(GraphOf(g).connections) - 1)

\* C12: connecting two valid nodes on valid ports succeeds and appends exactly
\* one connection, and disconnecting that connection (by the id connectNodes
\* returned) right afterwards brings the connection list back to what it was
\* before the connect.
C12_ConnectDisconnect ==
    [][/\ (last'.op = "connectNodes" /\ ValidConnect(last'.args))
             => /\ last'.result.ok
                /\ MapGet(graphs', last'.args[1]).connections
                      = Append(GraphOf(last'.args[1]).connections, last'.result.value)
       /\ ( /\ last.op = "connectNodes"
            /\ last.result.ok
            /\ ValidConnect(last.args)
            /\ last'.op = "disconnect"
            /\ last'.args = <<last.args[1], last.result.value.id>> )
             => /\ last'.result.ok
                /\ MapGet(graphs', last.args[1]).connections
                      = AllButLast(last.args[1])]_vars

\* The graphs update executes: the positions in the store of the graphs whose
\* object is in the scene and that have an event node.
Runnable ==
    {k \in 1..Len(graphs) :
        /\ graphs[k].key \in DOMAIN scene
        /\ EventNodes(graphs[k].value.nodes, nodeTypes) # <<>>}

\* C13: the interpreter starts stopped; play() and stop(), and nothing else,
\* switch it; while it is stopped update() and executeGraph() invoke no
\* execution function and change no node property; while it is playing each
\* update() executes the graphs again, starting with the first event node of
\* the first graph whose object is in the scene.
C13_PlayGate ==
    [][/\ last.op = "new" => ~isPlaying
       /\ isPlaying' = IF last'.op = "play" THEN TRUE
                       ELSE IF last'.op = "stop" THEN FALSE
                       ELSE isPlaying
       /\ (~isPlaying /\ last'.op \in {"update", "executeGraph"})
             => /\ last'.log = <<>>
                /\ last'.result.ok
                /\ graphs' = graphs
                /\ scene' = scene
       /\ (isPlaying /\ last'.op = "update" /\ Runnable # {})
             => /\ last'.log # <<>>
                /\ last'.log[1] =
                      Executed(graphs[Min(Runnable)].key,
                               EventNodes(graphs[Min(Runnable)].value.nodes,
                                          nodeTypes)[1])]_vars

\* update() was called while stopped on a store in which an earlier tick left
\* its mark (an execution function replaced a property record by a bare
\* value): play(), update(), stop(), update().
C13_Witness ==
    /\ last.op = "update"
    /\ ~isPlaying
    /\ last.log = <<>>
    /\ \E k \in 1..Len(graphs) : \E i \in 1..Len(graphs[k].value.nodes) :
          \E key \in DOMAIN graphs[k].value.nodes[i].properties :
              ~graphs[k].value.nodes[i].properties[key].isRecord

\* Every event node of every graph update executes has been invoked in the
\* last call.
AllEventNodesExecuted ==
    \A k \in Runnable :
        \A e \in 1..Len(EventNodes(graphs[k].value.nodes, nodeTypes)) :
            \E x \in 1..Len(Log) :
                Log[x] = Executed(graphs[k].key,
                                  EventNodes(graphs[k].value.nodes, nodeTypes)[e])

\* C14: when a node's execution function throws during a tick, update() does
\* not fail, and the remaining event nodes of the graph and the remaining
\* graphs are still executed.
C14_FailureIsolation ==
    ( /\ last.op = "update"
      /\ isPlaying
      /\ \E x \in 1..Len(Log) : Log[x].kind = "fail" )
    => (~last.result.threw /\ AllEventNodesExecuted)

\* The log entries that call executeNode on a node whose type is not in the
\* registry.
UnknownDispatches ==
    {y \in 1..Len(Log) :
        /\ Log[y].kind = "dispatch"
        /\ NodeOf(Log[y]).type \notin DOMAIN nodeTypes}

C16_TicksTerminate ==
    Ticked => \A x \in 1..Len(Log) : Log[x].kind # "overflow"

\* The number of times the last call invoked the execution function of node
\* i of graph g.
Invocations(g, i) ==
    Cardinality({x \in 1..Len(Log) : Log[x] = Executed(g, i)})

\* C17: in a tick that executes a graph, every node of an event type is
\* invoked exactly once, whether or not connections target it.
C17_EventNodesOnce ==
    (last.op = "update" /\ isPlaying /\ ~last.result.threw) =>
        \A k \in Runnable :
            \A e \in 1..Len(EventNodes(graphs[k].value.nodes, nodeTypes)) :
                Invocations(graphs[k].key,
                            EventNodes(graphs[k].value.nodes, nodeTypes)[e]) = 1

\* The last call was deserializeGraph on a text JSON.parse accepts; Loaded is
\* the data of that text.
Loading == last.op = "deserializeGraph" /\ last.args[1].valid

Loaded == last.args[1].data

\* C18: deserializeGraph follows one fixed policy for a serialized node whose
\* type is not registered: the node is retained at its place with its id,
\* type name and position and an empty property table, and the connections
\* of the text are all kept.
C18_UnknownTypeRetained ==
    Loading =>
        /\ last.result.ok
        /\ last.result.value = GraphOf(Loaded.id)
        /\ Len(GraphOf(Loaded.id).nodes) = Len(Loaded.nodes)
        /\ GraphOf(Loaded.id).connections = Loaded.connections
        /\ \A i \in 1..Len(Loaded.nodes) :
              Loaded.nodes[i].type \notin DOMAIN nodeTypes =>
                  /\ GraphOf(Loaded.id).nodes[i].id = Loaded.nodes[i].id
                  /\ GraphOf(Loaded.id).nodes[i].type = Loaded.nodes[i].type
                  /\ GraphOf(Loaded.id).nodes[i].position = Loaded.nodes[i].position
                  /\ DOMAIN GraphOf(Loaded.id).nodes[i].properties = {}

\* A text with a node of an unregistered type, which stored a property and
\* has connections on both sides, was loaded.
C18_Witness ==
    /\ Loading
    /\ \E i \in 1..Len(Loaded.nodes) :
          /\ Loaded.nodes[i].type \notin DOMAIN nodeTypes
          /\ DOMAIN Loaded.nodes[i].properties # {}
          /\ \E c, d \in 1..Len(Loaded.connections) :
                /\ Loaded.connections[c].sourceNodeId = Loaded.nodes[i].id
                /\ Loaded.connections[d].targetNodeId = Loaded.nodes[i].id

\* C19: deserializeGraph rebuilds the property table of a node of a
\* registered type from the registry's current declaration: it has exactly
\* the declared keys; a declared key the text stores has the stored value, a
\* declared key the text does not store has the declared default; a stored
\* key the type does not declare is absent.
C19_PropertiesFromRegistry ==
    Loading =>
        /\ Len(GraphOf(Loaded.id).nodes) = Len(Loaded.nodes)
        /\ \A i \in 1..Len(Loaded.nodes) :
              Loaded.nodes[i].type \in DOMAIN nodeTypes =>
                  /\ DOMAIN GraphOf(Loaded.id).nodes[i].properties
                        = DOMAIN nodeTypes[Loaded.nodes[i].type].properties
                  /\ \A k \in DOMAIN nodeTypes[Loaded.nodes[i].type].properties :
                        /\ GraphOf(Loaded.id).nodes[i].properties[k].isRecord
                        /\ PropertyValue(GraphOf(Loaded.id).nodes[i].properties[k]) =
                              IF k \in DOMAIN Loaded.nodes[i].properties
                              THEN Loaded.nodes[i].properties[k]
                              ELSE PropertyValue(
                                       nodeTypes[Loaded.nodes[i].type].properties[k])

\* A text was loaded in which a node of a registered type stores a key the
\* type does not declare, stores a declared key with a value other than the
\* default, and lacks a declared key.
C19_Witness ==
    /\ Loading
    /\ \E i \in 1..Len(Loaded.nodes) :
          /\ Loaded.nodes[i].type \in DOMAIN nodeTypes
          /\ \E k \in DOMAIN Loaded.nodes[i].properties :
                k \notin DOMAIN nodeTypes[Loaded.nodes[i].type].properties
          /\ \E k \in DOMAIN Loaded.nodes[i].properties :
                /\ k \in DOMAIN nodeTypes[Loaded.nodes[i].type].properties
                /\ Loaded.nodes[i].properties[k] #
                       PropertyValue(nodeTypes[Loaded.nodes[i].type].properties[k])
          /\ \E k \in DOMAIN nodeTypes[Loaded.nodes[i].type].properties :
                k \notin DOMAIN Loaded.nodes[i].properties

\* C20: after registerNodeType(name, def) the registry holds def under name,
\* with exactly the registered input and output port lists, whether or not
\* the name was registered before; the other names keep their definitions
\* and no graph changes (instances keep their property tables); no other call
\* changes the registry; addNode gives the new node a copy of the properties
\* the registry declares at the time of the call.
C20_LastWriteWins ==
    [][/\ last'.op = "registerNodeType"
             => /\ DOMAIN nodeTypes' = DOMAIN nodeTypes \cup {last'.args[1]}
                /\ nodeTypes'[last'.args[1]] = last'.args[2]
                /\ nodeTypes'[last'.args[1]].inputs = last'.args[2].inputs
                /\ nodeTypes'[last'.args[1]].outputs = last'.args[2].outputs
                /\ \A n \in DOMAIN nodeTypes \ {last'.args[1]} :
                      nodeTypes'[n] = nodeTypes[n]
                /\ graphs' = graphs
       /\ last'.op # "registerNodeType" => nodeTypes' = nodeTypes
       /\ (last'.op = "addNode" /\ last'.result.ok)
             => last'.result.value.properties
                    = JsonCopy(nodeTypes[last'.args[2]].properties)]_vars

\* 'Add' was registered again with another definition and addNode('Add')
\* then made a node with the new property table, next to an Add node that
\* still has the old one.
C20_Witness ==
    /\ last.op = "addNode"
    /\ last.args[2] = "Add"
    /\ last.result.ok
    /\ DOMAIN last.result.value.properties = {"input"}
    /\ \E i \in 1..Len(GraphOf(last.args[1]).nodes) :
          /\ GraphOf(last.args[1]).nodes[i].type = "Add"
          /\ DOMAIN GraphOf(last.args[1]).nodes[i].properties = {"A", "B", "Result"}

\* The entry of key in a property table, <<>> when the table has no such key.
EntryOf(properties, key) ==
    IF key \in DOMAIN properties THEN properties[key] ELSE <<>>

\* The keys in which the tables of node i of the k-th graph differ between
\* two stores.
ChangedKeys(gs, hs, k, i) ==
    {key \in DOMAIN gs[k].value.nodes[i].properties
              \cup DOMAIN hs[k].value.nodes[i].properties :
        EntryOf(gs[k].value.nodes[i].properties, key)
            # EntryOf(hs[k].value.nodes[i].properties, key)}

\* The log holds an entry of `kind` for node i of graph g (and key, for a
\* write).
Logged(log, kind, g, i, key) ==
    \E x \in 1..Len(log) :
        /\ log[x].kind = kind
        /\ log[x].graph = g
        /\ log[x].node = i
        /\ (kind = "write" => log[x].key = key)

PublishesTo(x, j) ==
    {p \in 1..Len(Log) :
        /\ InInvocation(x, p)
        /\ Log[p].kind = "publish"
        /\ Log[p].graph = Log[x].graph
        /\ Log[p].node = Log[x].node
        /\ \E key \in DOMAIN GraphOf(Log[x].graph).nodes[j].properties :
              Wired(GraphOf(Log[x].graph), Log[x].node, Log[p].port, j, key)}

\* C22: a value is delivered before its target is executed, also when the
\* result that carries the value carries the flow that executes the target:
\* when one invocation both publishes a value on a port connected to an input
\* of a node and calls executeNode on that node, the publication comes first.
C22_ValuesBeforeFlow ==
    Ticked =>
        \A x \in 1..Len(Log) :
            Log[x].kind = "exec" =>
                \A y \in DispatchesBy(x) :
                    \A p \in PublishesTo(x, Log[y].node) : p < y

\* The values delivered in the last call to property `key` of node j of graph
\* g: the publications on a port that a connection leads from to that input.
Deliveries(g, j, key) ==
    {p \in 1..Len(Log) :
        /\ Log[p].kind = "publish"
        /\ Log[p].graph = g
        /\ Wired(GraphOf(g), Log[p].node, Log[p].port, j, key)}

\* The declared input names of the type of a node (none for an unregistered
\* type).
InputsOf(node) ==
    IF node.type \in DOMAIN nodeTypes
    THEN {nodeTypes[node.type].inputs[k] : k \in 1..Len(nodeTypes[node.type].inputs)}
    ELSE {}

\* C23: last write wins.  After a tick that ran to its end, an input property
\* to which one or more values were delivered holds the value delivered last
\* in traversal order.
C23_LastWriteWins ==
    (Ticked /\ ~last.result.threw) =>
        \A k \in 1..Len(graphs) :
            \A j \in 1..Len(graphs[k].value.nodes) :
                \A key \in InputsOf(graphs[k].value.nodes[j])
                              \cap DOMAIN graphs[k].value.nodes[j].properties :
                    (/\ graphs[k].value.nodes[j].properties[key].isRecord
                     /\ Deliveries(graphs[k].key, j, key) # {})
                    => graphs[k].value.nodes[j].properties[key].value
                          = Log[Max(Deliveries(graphs[k].key, j, key))].value

\* A tick delivered two different values to one input, and the input holds
\* the second.
C23_Witness ==
    /\ last.op = "update"
    /\ ~last.result.threw
    /\ \E j \in 1..Len(GraphOf("e1").nodes) :
          /\ "input" \in DOMAIN GraphOf("e1").nodes[j].properties
          /\ \E p, q \in Deliveries("e1", j, "input") :
                /\ p < q
                /\ Log[p].value # Log[q].value
                /\ q = Max(Deliveries("e1", j, "input"))
                /\ GraphOf("e1").nodes[j].properties["input"]
                       = Prop("float", Log[q].value, "input")

\* The value published on Result by the invocation that entry x started
\* (Undefined when it published none).
ResultOf(x) ==
    LET ps == {p \in 1..Len(Log) :
                 /\ InInvocation(x, p)
                 /\ Log[p].kind = "publish"
                 /\ Log[p].graph = Log[x].graph
                 /\ Log[p].node = Log[x].node
                 /\ Log[p].port = "Result"}
    IN IF ps = {} THEN Undefined ELSE Log[Min(ps)].value

\* The writes to property `key` of the node of entry x that the last call
\* made before x.
WritesBefore(x, key) ==
    {w \in 1..(x - 1) :
        /\ Log[w].kind = "write"
        /\ Log[w].graph = Log[x].graph
        /\ Log[w].node = Log[x].node
        /\ Log[w].key = key}

\* No connection of G leads to property `key` of node j.
Unwired(G, j, key) ==
    \A k \in 1..Len(G.connections) :
        ~(G.connections[k].targetNodeId = G.nodes[j].id
          /\ G.connections[k].targetInput = key)

\* C24: current-value lookup is per tick.  In a store that only ticks have
\* touched since it was built (so the static value of every Add.A is the
\* declared 0), an Add node whose B no connection leads to computes its
\* Result from B and from the value written to A earlier in the same tick,
\* or from the static 0 when the tick has not written A: a value written to A
\* in an earlier tick is not read.
C24_PerTickLookup ==
    (Ticked /\ edits = 0) =>
        \A x \in Execs("Add") :
            (/\ Unwired(GraphOf(Log[x].graph), Log[x].node, "B")
             /\ NodeOf(Log[x]).properties["B"].isRecord)
            => ResultOf(x)
                  = JsAdd(IF WritesBefore(x, "A") = {}
                          THEN OrElse(nodeTypes["Add"].properties["A"].value, Num(0))
                          ELSE OrElse(Log[Max(WritesBefore(x, "A"))].value, Num(0)),
                          OrElse(NodeOf(Log[x]).properties["B"].value, Num(0)))

\* C25: a missing capability degrades to a no-op.  No invocation of an
\* ApplyForce node fails: whatever its target object lacks, the function
\* returns, the call that ticked does not throw, and the scene objects carry
\* no force that a RigidBody did not take.
C25_ApplyForceDegrades ==
    Ticked =>
        \A x \in Execs("ApplyForce") :
            /\ \A y \in 1..Len(Log) : Log[y] # Failed(Log[x].graph, Log[x].node)
            /\ ~last.result.threw
            /\ \A e \in DOMAIN scene : ~scene[e].rigidBody => scene[e].force = Undefined

\* C26: OnStart fires in the first tick of a play period only.  When update()
\* follows a tick of the same play period in which an OnStart node of a graph
\* was invoked (both ticks returning normally), that node's function is not
\* invoked again and no flow leaves its Next output.
C26_OnStartOnce ==
    [][(/\ last.op = "update"
        /\ last'.op = "update"
        /\ isPlaying
        /\ isPlaying'
        /\ ~last.result.threw
        /\ ~last'.result.threw)
       => \A x \in 1..Len(last.log) :
             (/\ last.log[x].kind = "exec"
              /\ MapGet(graphs, last.log[x].graph).nodes[last.log[x].node].type = "OnStart")
             => \A y \in 1..Len(last'.log) :
                   /\ last'.log[y] # last.log[x]
                   /\ ~(/\ last'.log[y].kind = "dispatch"
                         /\ last'.log[y].graph = last.log[x].graph
                         /\ last'.log[y].src = last.log[x].node)]_vars

\* The output ports through which the execution function of a type returns
\* flow (flow or multiFlow of its result): none for the value nodes, for the
\* host's sink and for a type that is not registered.
FlowOutputs(type) ==
    CASE type \in {"OnStart", "OnUpdate", "OnCollision", "SetPosition",
                   "ApplyForce", "Emit"} -> {"Next"}
      [] type = "Branch" -> {"True", "False"}
      [] type = "Sequence" -> {"First", "Second", "Third"}
      [] OTHER -> {}

\* C27: execution is push-only along flow.  Every invocation in a tick is
\* either that of an event node started by executeGraph itself, or follows at
\* once on an executeNode call made for a connection that leaves a flow
\* output of a node invoked earlier in the tick and leads to the invoked
\* node; so a node that only value connections reach is never executed.
C27_PushOnly ==
    Ticked =>
        \A x \in 1..Len(Log) :
            Log[x].kind = "exec" =>
                IF /\ x > 1
                   /\ Log[x - 1].kind = "dispatch"
                   /\ Log[x - 1].graph = Log[x].graph
                   /\ Log[x - 1].node = Log[x].node
                THEN /\ \E z \in 1..(x - 2) :
                           Log[z] = Executed(Log[x].graph, Log[x - 1].src)
                     /\ Log[x - 1].port
                           \in FlowOutputs(GraphOf(Log[x].graph).nodes[Log[x - 1].src].type)
                     /\ Log[x].node
                           \in Targets(GraphOf(Log[x].graph), Log[x - 1].src, Log[x - 1].port)
                ELSE /\ NodeOf(Log[x]).type \in DOMAIN nodeTypes
                     /\ nodeTypes[NodeOf(Log[x]).type].category = "Events"

\* A tick ran in which a value was published on a port connected to an input
\* of a node that no flow reached: that node was not executed.
C27_Witness ==
    /\ last.op = "update"
    /\ isPlaying
    /\ \E j \in 1..Len(GraphOf("e1").nodes) :
          /\ Deliveries("e1", j, "input") # {}
          /\ \A x \in 1..Len(Log) : Log[x] # Executed("e1", j)
          /\ \E y \in 1..Len(Log) : Log[y].kind = "dispatch"

\* C28: execution does not edit structure.  A tick leaves the registry, the
\* set and order of the graphs, and in every graph the ids, types and
\* positions of the nodes, the connection list and the variable table as they
\* were; only property tables may differ.
C28_StructureUnchanged ==
    [][last'.op \in {"update", "executeGraph"}
          => /\ nodeTypes' = nodeTypes
             /\ isPlaying' = isPlaying
             /\ Len(graphs') = Len(graphs)
             /\ \A k \in 1..Len(graphs) :
                   /\ graphs'[k].key = graphs[k].key
                   /\ graphs'[k].value.id = graphs[k].value.id
                   /\ graphs'[k].value.objectId = graphs[k].value.objectId
                   /\ graphs'[k].value.connections = graphs[k].value.connections
                   /\ graphs'[k].value.variables = graphs[k].value.variables
                   /\ Len(graphs'[k].value.nodes) = Len(graphs[k].value.nodes)
                   /\ \A i \in 1..Len(graphs[k].value.nodes) :
                         /\ graphs'[k].value.nodes[i].id = graphs[k].value.nodes[i].id
                         /\ graphs'[k].value.nodes[i].type = graphs[k].value.nodes[i].type
                         /\ graphs'[k].value.nodes[i].position
                               = graphs[k].value.nodes[i].position]_vars

\* A tick executed a graph that holds a connection to a node it does not
\* hold, and passed flow through the graph.
C28_Witness ==
    /\ Ticked
    /\ isPlaying
    /\ \E k \in 1..Len(graphs) :
          /\ \E c \in 1..Len(graphs[k].value.connections) :
                FindNode(graphs[k].value.nodes,
                         graphs[k].value.connections[c].targetNodeId) = 0
          /\ \E y \in 1..Len(Log) :
                Log[y].kind = "dispatch" /\ Log[y].graph = graphs[k].key

\* C29: the shape of the property tables.  Every entry of every node's
\* property table is a record with a value field, never a bare value.
C29_PropertyShape ==
    \A k \in 1..Len(graphs) :
        \A i \in 1..Len(graphs[k].value.nodes) :
            \A key \in DOMAIN graphs[k].value.nodes[i].properties :
                graphs[k].value.nodes[i].properties[key].isRecord

\* C30: graphs are isolated.  executeGraph changes no graph but the one it is
\* called on and invokes nodes of that graph only; update leaves untouched,
\* and invokes nothing in, a graph whose object the scene does not hold; a
\* change in a graph comes from an invocation or a write in that same graph;
\* executeNode is called only on a node of the graph that holds the
\* connection, so a connection to an id of another graph is skipped.
C30_GraphsIsolated ==
    [][/\ last'.op = "executeGraph" =>
             /\ \A k \in 1..Len(graphs) :
                   graphs[k].key # last'.args[1] => graphs'[k] = graphs[k]
             /\ \A y \in 1..Len(last'.log) : last'.log[y].graph = last'.args[1]
       /\ last'.op = "update" =>
             \A k \in 1..Len(graphs) :
                 graphs[k].key \notin DOMAIN scene =>
                     /\ graphs'[k] = graphs[k]
                     /\ \A y \in 1..Len(last'.log) : last'.log[y].graph # graphs[k].key
       /\ last'.op \in {"update", "executeGraph"} =>
             /\ \A k \in 1..Len(graphs) :
                   \A i \in 1..Len(graphs[k].value.nodes) :
                       ChangedKeys(graphs, graphs', k, i) # {} =>
                           \/ Logged(last'.log, "exec", graphs[k].key, i, "")
                           \/ \E key \in ChangedKeys(graphs, graphs', k, i) :
                                 Logged(last'.log, "write", graphs[k].key, i, key)
             /\ \A y \in 1..Len(last'.log) :
                   last'.log[y].kind = "dispatch" =>
                       last'.log[y].node
                           \in Targets(MapGet(graphs, last'.log[y].graph),
                                       last'.log[y].src, last'.log[y].port)]_vars

\* update ran the graph of an object of the scene and left alone a graph with
\* event nodes whose object the scene does not hold.
C30_Witness ==
    /\ last.op = "update"
    /\ isPlaying
    /\ \E x \in 1..Len(Log) : Log[x].kind = "exec" /\ Log[x].graph \in DOMAIN scene
    /\ \E k \in 1..Len(graphs) :
          /\ graphs[k].key \notin DOMAIN scene
          /\ EventNodes(graphs[k].value.nodes, nodeTypes) # <<>>
          /\ \A y \in 1..Len(Log) : Log[y].graph # graphs[k].key

===========================================================================
